---- MODULE Spec2Model ----
(***************************************************************************)
(* A model of firebreak's VM worker pool and pool manager                 *)
(* (firebreak/pool.py), of the RPC client and the wire framing             *)
(* (firebreak/rpc.py), of the guest executor's request handler             *)
(* (firebreak/executor.py), of the capability profiles and their           *)
(* fingerprint (firebreak/types.py, firebreak/profile.py), of the runner's *)
(* snapshot cache (firebreak/runner.py), and of the stub and the           *)
(* synchronous entry point (firebreak/stub.py, firebreak/manager.py).      *)
(*                                                                         *)
(* The host side is single-threaded asyncio: a task runs until it awaits   *)
(* something that really suspends.  Each action below is one such run of   *)
(* one task, from the point where it resumes to its next suspension.       *)
(* Acquiring the free pool lock and putting on the unbounded queue do not  *)
(* suspend; runner.start_vm, runner.stop_vm, the ready probe, the wait on  *)
(* the available queue, the wait for a response and sleep(60) do.          *)
(***************************************************************************)
EXTENDS Integers, Sequences, FiniteSets, TLC

\* ---------------------------------------------------------------- bounds

\* Caller tasks that use the pool concurrently.
NumTasks == 2
\* VM creations (channel ids handed out) over a run.
MaxVMs == 3
\* Requests issued over a run.
MaxRequests == 3
\* Largest configured min_size / max_size.
MaxPoolSize == 2
\* Largest configured max_calls_per_vm.
MaxCallCap == 2
\* Request ids, function reference length and dependency list length of the
\* requests the executor is given.
MaxExecIds == 2
MaxRefLen == 2
MaxDeps == 2

\* The pool's channel id counter starts here; the first VM gets CidBase + 1.
CidBase == 100

Tasks == 1..NumTasks
VMs == (CidBase + 1)..(CidBase + MaxVMs)
NoVM == 0

VARIABLES
    \* PoolConfig
    min_size, max_size, max_calls_per_vm,
    \* VMWorkerPool
    started, shutdown, cid_counter, all_vms, in_use, available,
    \* VMInstance, per channel id
    vmst, call_count, tainted, idle, pending,
    \* one execute() call per caller task
    pc, tvm, req, res,
    \* the maintenance task
    mpc, mcur, mlist,
    \* the stop() call
    spc, scur, slist,
    \* history
    next_rid, late, create_failed,
    \* the guest executor's handle_request, and what import_function made of
    \* the function reference
    ex_req, ex_out, ex_resp, ex_import, ex_sent,
    \* what the sandboxed function does when the guest calls it
    guest_fn,
    \* PoolManager: directory, lock and its waiters, one execute_async per
    \* caller task, shutdown()
    pools, mgr_lock, mgr_waiters, gpc, gkey, gpool, served, sdpc,
    \* the pools the manager has constructed, and the guests that run
    pool_key, pool_st, pool_vms, pool_cid, guests, peer,
    \* CapabilityProfile.from_kwargs / ProfileHasher.hash on two call sites
    kwargs, profiles,
    \* the runner's snapshot cache, each pool's _snapshot and how far its
    \* start() got with it, and the snapshots made per key (history)
    snapshots, pool_snap, pool_prov, provisioned,
    \* one direction of a connection: the messages passed to send, the bytes
    \* written and not yet read, whether the writing end is closed, the bytes
    \* that never arrived (history); recv's position, header, length and
    \* data; what the recv calls returned or raised (history)
    sent, stream, eof, dropped, rpos, header, length, data, received,
    \* SandboxStub.handle_response: a response and what the stub made of it
    hr_response, hr_outcome,
    \* SandboxManager.execute per caller: where the call is, what it gave,
    \* the Task it left on the running loop, and how often a VM was acquired
    \* and the request sent for it (history)
    sync_pc, sync_res, loop_task, vm_uses,
    \* one execute() call per caller, followed through the pool lock: the
    \* lock's holder, where each caller is, the VM it handles and what its
    \* _create_vm is for; the pool's counter, indexes and queue
    lk_owner, lk_pc, lk_vm, lk_why, lk_counter, lk_all, lk_in_use, lk_queue,
    \* provision_snapshot's install: where it is, the response header,
    \* length and data read so far, the provisioning VM, and whether a
    \* sock_recv of the response has returned b"" (history)
    in_pc, in_header, in_length, in_data, in_vm, in_spun

poolvars == <<min_size, max_size, max_calls_per_vm, started, shutdown,
              cid_counter, all_vms, in_use, available, vmst, call_count,
              tainted, idle, pending, pc, tvm, req, res, mpc, mcur, mlist,
              spc, scur, slist, next_rid, late, create_failed>>
execvars == <<ex_req, ex_out, ex_resp, ex_import, ex_sent>>
mgrvars == <<pools, mgr_lock, mgr_waiters, gpc, gkey, gpool, served, sdpc,
             pool_key, pool_st, pool_vms, pool_cid, guests, peer>>
profvars == <<kwargs, profiles>>
\* What no operation of the worker pool touches.
runnervars == <<snapshots, pool_snap, pool_prov, provisioned>>
\* What only the operations of their own section touch.
wirevars == <<sent, stream, eof, dropped, rpos, header, length, data,
              received>>
stubvars == <<hr_response, hr_outcome>>
syncvars == <<sync_pc, sync_res, loop_task, vm_uses>>
lockvars == <<lk_owner, lk_pc, lk_vm, lk_why, lk_counter, lk_all, lk_in_use,
              lk_queue>>
installvars == <<in_pc, in_header, in_length, in_data, in_vm, in_spun>>
sidevars == <<runnervars, wirevars, stubvars, syncvars, lockvars,
              installvars>>
othervars == <<execvars, guest_fn, sidevars, mgrvars, profvars>>
\* What no operation of the pool manager touches.
nonmgrvars == <<poolvars, execvars, guest_fn, sidevars, profvars>>
\* What no operation on the runner's snapshots touches, and likewise for a
\* connection, for the stub and for the synchronous entry point.
corevars == <<poolvars, execvars, guest_fn, profvars, mgrvars>>
nonrunnervars == <<corevars, wirevars, stubvars, syncvars, lockvars,
                   installvars>>
nonwirevars == <<corevars, runnervars, stubvars, syncvars, lockvars,
                 installvars>>
nonstubvars == <<corevars, runnervars, wirevars, syncvars, lockvars,
                 installvars>>
nonsyncvars == <<corevars, runnervars, wirevars, stubvars, lockvars,
                 installvars>>
nonlockvars == <<corevars, runnervars, wirevars, stubvars, syncvars,
                 installvars>>
\* What the install of a provisioning touches besides its own variables is
\* the runner's cache and the connection.
noninstallvars == <<corevars, stubvars, syncvars, lockvars>>
vars == <<poolvars, othervars>>

cfgvars == <<min_size, max_size, max_calls_per_vm>>
maintvars == <<mpc, mcur, mlist>>
stopvars == <<spc, scur, slist>>

\* ---------------------------------------------------------------- helpers

Range(s) == {s[i] : i \in DOMAIN s}

\* dict.pop(key, None) on an insertion-ordered dict, kept as the key sequence.
SeqRemove(s, x) == SelectSeq(s, LAMBDA y : y # x)

\* len(self._all_vms)
total_count == Cardinality(all_vms)

NoResult == [kind |-> "none", rid |-> 0]

\* ------------------------------------------------------ VMInstance state
\* vmst[v]: "none"    no VM with this channel id yet
\*          "booting" start_vm / ready probe in progress (_create_vm)
\*          "ready"   process running, client connected
\*          "closed"  a _destroy_vm has closed the client and called stop_vm
\*          "stopped" a stop_vm of it has completed
\*          "failed"  _create_vm raised VMStartupError
\*          "unready" _create_vm raised VMStartupError after the driver had
\*                    started the process: the ready probe failed

\* _destroy_vm up to its suspension in runner.stop_vm: vm.client.close().
CloseClient(st, v) == [st EXCEPT ![v] = IF @ = "ready" THEN "closed" ELSE @]

\* runner.stop_vm has returned.
StopProcess(st, v) == [st EXCEPT ![v] = "stopped"]

\* _should_recycle, on the VM's tainted flag and call_count.
ShouldRecycleNoCap(isTainted, count) == isTainted

ShouldRecycle(isTainted, count) ==
    IF isTainted THEN TRUE
    ELSE IF count >= max_calls_per_vm THEN TRUE
    ELSE FALSE

\* ------------------------------------------------------------------ Init

PoolIdle ==
    /\ started = FALSE
    /\ shutdown = FALSE
    /\ cid_counter = CidBase
    /\ all_vms = {}
    /\ in_use = <<>>
    /\ available = <<>>
    /\ vmst = [v \in VMs |-> "none"]
    /\ call_count = [v \in VMs |-> 0]
    /\ tainted = [v \in VMs |-> FALSE]
    /\ idle = [v \in VMs |-> FALSE]
    /\ pending = [v \in VMs |-> <<>>]
    /\ pc = [t \in Tasks |-> "idle"]
    /\ tvm = [t \in Tasks |-> NoVM]
    /\ req = [t \in Tasks |-> 0]
    /\ res = [t \in Tasks |-> NoResult]
    /\ mpc = "sleep"
    /\ mcur = NoVM
    /\ mlist = <<>>
    /\ spc = "idle"
    /\ scur = NoVM
    /\ slist = <<>>
    /\ next_rid = 0
    /\ late = [t \in Tasks |-> FALSE]
    /\ create_failed = FALSE

\* VMWorkerPool.__init__ with a PoolConfig whose min_size <= max_size.
PoolInit ==
    /\ min_size \in 0..MaxPoolSize
    /\ max_size \in 1..MaxPoolSize
    /\ min_size <= max_size
    /\ max_calls_per_vm \in 1..MaxCallCap
    /\ PoolIdle

\* _create_vm: self._cid_counter += 1, under the pool's lock (which is
\* never held across a suspension, so taking it does not suspend).
NextCidStuck(counter) == counter

NextCid(counter) == counter + 1

\* ----------------------------------------------------------------- start

\* VMWorkerPool.start: min_size creations one after another, each failure
\* logged; nothing else can use the pool before start returns (PoolManager
\* publishes the pool after start).  ok is the set of creations that succeed.
Start(ok) ==
    /\ ~started
    /\ ok \subseteq (CidBase + 1)..(CidBase + min_size)
    /\ started' = TRUE
    /\ cid_counter' = CidBase + min_size
    /\ all_vms' = ok
    /\ available' = SelectSeq([i \in 1..min_size |-> CidBase + i],
                              LAMBDA v : v \in ok)
    /\ vmst' = [v \in VMs |-> IF v \in ok THEN "ready"
                              ELSE IF v <= CidBase + min_size THEN "failed"
                              ELSE "none"]
    /\ create_failed' = (ok # (CidBase + 1)..(CidBase + min_size))
    /\ UNCHANGED <<othervars, cfgvars, shutdown, in_use, call_count, tainted, idle,
                   pending, pc, tvm, req, res, maintvars, stopvars,
                   next_rid, late>>

\* -------------------------------------------------------- guest executor

\* handle_request's default for a request without a request_id stands for
\* the string "unknown"; real request ids are 1, 2, ...
UnknownId == 0

\* Characters of a function reference, and dependency specifiers ("" is the
\* specifier install_dependencies rejects).
RefChars == {"m", ":"}
DepNames == {"numpy", ""}

SeqsUpTo(S, n) == UNION {[1..k -> S] : k \in 0..n}

\* What the guest's environment does with a call: the function returns,
\* raises an Exception, is interrupted by the timer; the module cannot be
\* imported, the attribute is missing, the object is not callable; the
\* function raises a BaseException that is no Exception (sys.exit()), or
\* returns a value that msgpack cannot pack.
FnOutcomes == {"return", "raise", "timeout", "import_error",
               "attribute_error", "not_callable", "system_exit",
               "unserializable"}

\* What the installer does: exit status 0, non-zero, subprocess timeout, any
\* other exception.
InstallOutcomes == {"ok", "nonzero", "expired", "exception"}

Success(result) == [success |-> TRUE, result |-> result, error |-> "none"]

Failure(type) == [success |-> FALSE, result |-> "none", error |-> type]

\* import_function's test: ":" in function_ref
HasColon(function_ref) == \E i \in DOMAIN function_ref : function_ref[i] = ":"

\* Position of the last ":" of function_ref (function_ref has one).
LastColon(function_ref) ==
    CHOOSE i \in DOMAIN function_ref :
        /\ function_ref[i] = ":"
        /\ \A j \in (i + 1)..Len(function_ref) : function_ref[j] # ":"

NoImport == [attempted |-> FALSE, module_path |-> <<>>, func_name |-> <<>>]

\* import_function: module_path, func_name = function_ref.rsplit(":", 1);
\* module_path goes to importlib.import_module, func_name is walked with
\* getattr.  Without a colon nothing is imported.
ImportFunction(function_ref) ==
    IF ~HasColon(function_ref) THEN NoImport
    ELSE [attempted |-> TRUE,
          module_path |-> SubSeq(function_ref, 1,
                                 LastColon(function_ref) - 1),
          func_name |-> SubSeq(function_ref, LastColon(function_ref) + 1,
                               Len(function_ref))]

\* execute_function: every Exception of the import or of the call becomes a
\* failure envelope.
ExecuteFunction(function_ref, out) ==
    IF ~HasColon(function_ref) THEN Failure("ValueError")
    ELSE CASE out = "import_error" -> Failure("ModuleNotFoundError")
           [] out = "attribute_error" -> Failure("AttributeError")
           [] out = "not_callable" -> Failure("TypeError")
           [] out = "raise" -> Failure("Exception")
           [] out = "timeout" -> Failure("TimeoutError")
           [] OTHER -> Success("value")

\* install_dependencies
InstallDependencies(dependencies, out) ==
    IF dependencies = <<>> THEN Success("No dependencies to install")
    ELSE IF \E i \in DOMAIN dependencies : dependencies[i] = ""
    THEN Failure("ValidationError")
    ELSE CASE out = "nonzero" -> Failure("InstallError")
           [] out = "expired" -> Failure("TimeoutError")
           [] out = "exception" -> Failure("Exception")
           [] OTHER -> Success("Installed")

\* request_data.get("request_id", "unknown")
RequestId(request) ==
    IF request.has_id THEN request.request_id ELSE UnknownId

\* result["request_id"] = request_id
WithRequestId(result, request_id) ==
    [k \in DOMAIN result \cup {"request_id"} |->
        IF k = "request_id" THEN request_id ELSE result[k]]

\* handle_request
HandleRequestInstallNoEcho(request, out) ==
    IF request.command = "install"
    THEN WithRequestId(InstallDependencies(request.dependencies, out),
                       UnknownId)
    ELSE WithRequestId(ExecuteFunction(request.function_ref, out),
                       RequestId(request))

HandleRequest(request, out) ==
    IF request.command = "install"
    THEN WithRequestId(InstallDependencies(request.dependencies, out),
                       RequestId(request))
    ELSE WithRequestId(ExecuteFunction(request.function_ref, out),
                       RequestId(request))

\* --------------------------------------------------------------- execute

\* VMWorkerPool.execute entered: acquire() -> _acquire_vm starts to wait on
\* the available queue.  The pool checks nothing before it (no shutdown test).
Execute(t) ==
    /\ started
    /\ pc[t] = "idle"
    /\ next_rid < MaxRequests
    /\ next_rid' = next_rid + 1
    /\ req' = [req EXCEPT ![t] = next_rid + 1]
    /\ res' = [res EXCEPT ![t] = NoResult]
    /\ tvm' = [tvm EXCEPT ![t] = NoVM]
    /\ pc' = [pc EXCEPT ![t] = "waiting"]
    /\ late' = [late EXCEPT ![t] = (spc = "done")]
    /\ UNCHANGED <<othervars, cfgvars, started, shutdown, cid_counter, all_vms, in_use,
                   available, vmst, call_count, tainted, idle, pending,
                   maintvars, stopvars, create_failed>>

\* _acquire_vm: the queue's get() takes the head (the coroutine wait_for
\* wraps); the caller has not yet been resumed with it.
AcquireGetPeek(t) ==
    /\ pc[t] = "waiting"
    /\ available # <<>>
    /\ tvm' = [tvm EXCEPT ![t] = Head(available)]
    /\ pc' = [pc EXCEPT ![t] = "dequeued"]
    /\ UNCHANGED <<othervars, cfgvars, started, shutdown, cid_counter, all_vms, in_use,
                   available, vmst, call_count, tainted, idle, pending, req,
                   res, maintvars, stopvars, next_rid, late, create_failed>>

AcquireGet(t) ==
    /\ pc[t] = "waiting"
    /\ available # <<>>
    /\ available' = Tail(available)
    /\ tvm' = [tvm EXCEPT ![t] = Head(available)]
    /\ pc' = [pc EXCEPT ![t] = "dequeued"]
    /\ UNCHANGED <<othervars, cfgvars, started, shutdown, cid_counter, all_vms, in_use,
                   vmst, call_count, tainted, idle, pending, req, res,
                   maintvars, stopvars, next_rid, late, create_failed>>

\* self._in_use[vm.vm_id] = vm
InUseInsertSkip(d, v) == d

InUseInsert(d, v) == IF v \in Range(d) THEN d ELSE Append(d, v)

\* RPCClient.call up to its wait for the response: the request is written on
\* the VM's connection.  A closed client (_conn is None) connects anew, and
\* the new connection carries nothing of the old one.
SendRequest(v, rid) ==
    [pending EXCEPT ![v] = IF vmst[v] = "ready" THEN Append(@, rid)
                           ELSE <<rid>>]

\* _acquire_vm resumed with the dequeued VM: registers it in in_use; execute
\* then sends the request and waits for the response.
AcquireRegister(t) ==
    /\ pc[t] = "dequeued"
    /\ in_use' = InUseInsert(in_use, tvm[t])
    /\ pending' = SendRequest(tvm[t], req[t])
    /\ pc' = [pc EXCEPT ![t] = "calling"]
    /\ UNCHANGED <<othervars, cfgvars, started, shutdown, cid_counter, all_vms,
                   available, vmst, call_count, tainted, idle, tvm, req, res,
                   maintvars, stopvars, next_rid, late, create_failed>>

\* _acquire_vm: the wait on the empty queue times out.  Below max_size the
\* caller starts _create_vm (next channel id, then start_vm); otherwise
\* VMPoolExhaustedError.
AcquireTimeout(t) ==
    /\ pc[t] = "waiting"
    /\ available = <<>>
    /\ IF total_count < max_size
       THEN /\ cid_counter < CidBase + MaxVMs
            /\ cid_counter' = NextCid(cid_counter)
            /\ vmst' = [vmst EXCEPT ![cid_counter + 1] = "booting"]
            /\ tvm' = [tvm EXCEPT ![t] = cid_counter + 1]
            /\ pc' = [pc EXCEPT ![t] = "creating"]
            /\ res' = res
       ELSE /\ res' = [res EXCEPT ![t] = [kind |-> "exhausted", rid |-> 0]]
            /\ pc' = [pc EXCEPT ![t] = "idle"]
            /\ UNCHANGED <<cid_counter, vmst, tvm>>
    /\ UNCHANGED <<othervars, cfgvars, started, shutdown, all_vms, in_use, available,
                   call_count, tainted, idle, pending, req, maintvars,
                   stopvars, next_rid, late, create_failed>>

\* _create_vm in _acquire_vm: the VM is ready; it is entered in all, returned,
\* entered in in_use, and the request is sent.
CreateOk(t) ==
    /\ pc[t] = "creating"
    /\ vmst' = [vmst EXCEPT ![tvm[t]] = "ready"]
    /\ all_vms' = all_vms \cup {tvm[t]}
    /\ in_use' = InUseInsert(in_use, tvm[t])
    /\ pending' = [pending EXCEPT ![tvm[t]] = <<req[t]>>]
    /\ pc' = [pc EXCEPT ![t] = "calling"]
    /\ UNCHANGED <<othervars, cfgvars, started, shutdown, cid_counter, available,
                   call_count, tainted, idle, tvm, req, res, maintvars,
                   stopvars, next_rid, late, create_failed>>

\* _create_vm in _acquire_vm raises VMStartupError: it propagates out of
\* execute (acquire() has not entered its try block, nothing is released).
CreateFailRegistered(t) ==
    /\ pc[t] = "creating"
    /\ vmst' = [vmst EXCEPT ![tvm[t]] = "failed"]
    /\ all_vms' = all_vms \cup {tvm[t]}
    /\ res' = [res EXCEPT ![t] = [kind |-> "startup", rid |-> 0]]
    /\ pc' = [pc EXCEPT ![t] = "idle"]
    /\ tvm' = [tvm EXCEPT ![t] = NoVM]
    /\ create_failed' = TRUE
    /\ UNCHANGED <<othervars, cfgvars, started, shutdown, cid_counter, in_use,
                   available, call_count, tainted, idle, pending, req,
                   maintvars, stopvars, next_rid, late>>

CreateFail(t) ==
    /\ pc[t] = "creating"
    /\ vmst' = [vmst EXCEPT ![tvm[t]] = "failed"]
    /\ res' = [res EXCEPT ![t] = [kind |-> "startup", rid |-> 0]]
    /\ pc' = [pc EXCEPT ![t] = "idle"]
    /\ tvm' = [tvm EXCEPT ![t] = NoVM]
    /\ create_failed' = TRUE
    /\ UNCHANGED <<othervars, cfgvars, started, shutdown, cid_counter, all_vms, in_use,
                   available, call_count, tainted, idle, pending, req,
                   maintvars, stopvars, next_rid, late>>

\* _create_vm in _acquire_vm: runner.start_vm (or restore_snapshot) returned
\* the process and _wait_for_vm_ready then raises at its deadline.  The
\* except clause of _create_vm logs and raises VMStartupError, which leaves
\* execute; runner.stop_vm is not called.
CreateUnready(t) ==
    /\ pc[t] = "creating"
    /\ vmst' = [vmst EXCEPT ![tvm[t]] = "unready"]
    /\ res' = [res EXCEPT ![t] = [kind |-> "startup", rid |-> 0]]
    /\ pc' = [pc EXCEPT ![t] = "idle"]
    /\ tvm' = [tvm EXCEPT ![t] = NoVM]
    /\ create_failed' = TRUE
    /\ UNCHANGED <<othervars, cfgvars, started, shutdown, cid_counter, all_vms, in_use,
                   available, call_count, tainted, idle, pending, req,
                   maintvars, stopvars, next_rid, late>>

\* --------------------------------------------------------------- release

\* _release_vm, from acquire()'s finally, up to its first suspension:
\* in_use.pop, mark_used, then either the put on the available queue (the
\* call is over) or _destroy_vm up to its wait in runner.stop_vm.
ReleaseVmKeepsInUse(t, v, isTainted) ==
    /\ in_use' = in_use
    /\ call_count' = [call_count EXCEPT ![v] = @ + 1]
    /\ idle' = [idle EXCEPT ![v] = FALSE]
    /\ IF ShouldRecycle(isTainted, call_count[v] + 1)
       THEN /\ vmst' = CloseClient(vmst, v)
            /\ pc' = [pc EXCEPT ![t] = "rel_destroy"]
            /\ UNCHANGED <<available, tvm>>
       ELSE /\ available' = Append(available, v)
            /\ pc' = [pc EXCEPT ![t] = "idle"]
            /\ tvm' = [tvm EXCEPT ![t] = NoVM]
            /\ vmst' = vmst

ReleaseVm(t, v, isTainted) ==
    /\ in_use' = SeqRemove(in_use, v)
    /\ call_count' = [call_count EXCEPT ![v] = @ + 1]
    /\ idle' = [idle EXCEPT ![v] = FALSE]
    /\ IF ShouldRecycle(isTainted, call_count[v] + 1)
       THEN /\ vmst' = CloseClient(vmst, v)
            /\ pc' = [pc EXCEPT ![t] = "rel_destroy"]
            /\ UNCHANGED <<available, tvm>>
       ELSE /\ available' = Append(available, v)
            /\ pc' = [pc EXCEPT ![t] = "idle"]
            /\ tvm' = [tvm EXCEPT ![t] = NoVM]
            /\ vmst' = vmst

\* RPCRequest.to_dict of a stub's request (the fields handle_request reads).
CallRequest(rid) ==
    [has_id |-> TRUE, request_id |-> rid, command |-> "none",
     function_ref |-> <<"m", ":", "f">>, dependencies |-> <<>>]

\* RPCClient.call returns: recv() gives the next framed message on the VM's
\* connection, which is the guest's answer to the oldest request on it that
\* has not been answered to the host; call() does not look at its
\* request_id.  The answer is handle_request's envelope for what the
\* function did (guest_fn): a failure envelope is a response like any other,
\* execute returns it.  The response can still be the one in hand when a
\* _destroy_vm has closed the client and waits in stop_vm.  execute returns
\* it and acquire() releases the VM.
CallReturn(t) ==
    /\ pc[t] = "calling"
    /\ vmst[tvm[t]] \in {"ready", "closed"}
    /\ pending[tvm[t]] # <<>>
    /\ LET response == HandleRequest(CallRequest(Head(pending[tvm[t]])),
                                     guest_fn)
       IN res' = [res EXCEPT ![t] = [kind |-> "response",
                                     rid |-> response.request_id,
                                     success |-> response.success,
                                     error |-> response.error]]
    /\ pending' = [pending EXCEPT ![tvm[t]] = Tail(@)]
    /\ ReleaseVm(t, tvm[t], tainted[tvm[t]])
    /\ UNCHANGED <<othervars, cfgvars, started, shutdown, cid_counter, all_vms, tainted,
                   req, maintvars, stopvars, next_rid, late, create_failed>>

\* What execute's except clauses do to vm.tainted.
TaintSkipped(v) == tainted

TaintOnFailure(v) == [tainted EXCEPT ![v] = TRUE]

\* execute: the wait_for on the call times out (asyncio.TimeoutError): the VM
\* is tainted, the error propagates, acquire() releases the VM.
CallTimeout(t) ==
    /\ pc[t] = "calling"
    /\ tainted' = TaintOnFailure(tvm[t])
    /\ res' = [res EXCEPT ![t] = [kind |-> "timeout", rid |-> 0]]
    /\ ReleaseVm(t, tvm[t], tainted'[tvm[t]])
    /\ UNCHANGED <<othervars, cfgvars, started, shutdown, cid_counter, all_vms, pending,
                   req, maintvars, stopvars, next_rid, late, create_failed>>

\* execute: the call raises an Exception (connect, send, recv, serialize,
\* deserialize, from_dict): the VM is tainted and the error propagates.
CallError(t) ==
    /\ pc[t] = "calling"
    /\ tainted' = TaintOnFailure(tvm[t])
    /\ res' = [res EXCEPT ![t] = [kind |-> "error", rid |-> 0]]
    /\ ReleaseVm(t, tvm[t], tainted'[tvm[t]])
    /\ UNCHANGED <<othervars, cfgvars, started, shutdown, cid_counter, all_vms, pending,
                   req, maintvars, stopvars, next_rid, late, create_failed>>

\* The caller's task is cancelled while it waits for the response:
\* CancelledError is a BaseException, so neither except clause of execute
\* runs; it propagates through acquire()'s finally, which releases the VM.
\* The request stays on the VM's connection.
CallCancel(t) ==
    /\ pc[t] = "calling"
    /\ res' = [res EXCEPT ![t] = [kind |-> "cancelled", rid |-> 0]]
    /\ ReleaseVm(t, tvm[t], tainted[tvm[t]])
    /\ UNCHANGED <<othervars, cfgvars, started, shutdown, cid_counter, all_vms, tainted,
                   pending, req, maintvars, stopvars, next_rid, late,
                   create_failed>>

\* _destroy_vm after runner.stop_vm returned: pops from all and in_use.
\* Then _release_vm: below min_size it starts _create_vm for a replacement.
ReleaseDestroyEndStrict(t) ==
    /\ pc[t] = "rel_destroy"
    /\ IF tvm[t] \notin all_vms
       THEN /\ res' = [res EXCEPT ![t] = [kind |-> "destroy_error", rid |-> 0]]
            /\ tvm' = [tvm EXCEPT ![t] = NoVM]
            /\ pc' = [pc EXCEPT ![t] = "idle"]
            /\ UNCHANGED <<all_vms, in_use, cid_counter, vmst>>
       ELSE /\ all_vms' = all_vms \ {tvm[t]}
            /\ in_use' = SeqRemove(in_use, tvm[t])
            /\ res' = res
            /\ IF Cardinality(all_vms') < min_size
               THEN /\ cid_counter < CidBase + MaxVMs
                    /\ cid_counter' = NextCid(cid_counter)
                    /\ vmst' = [StopProcess(vmst, tvm[t])
                                  EXCEPT ![cid_counter + 1] = "booting"]
                    /\ tvm' = [tvm EXCEPT ![t] = cid_counter + 1]
                    /\ pc' = [pc EXCEPT ![t] = "rel_create"]
               ELSE /\ vmst' = StopProcess(vmst, tvm[t])
                    /\ tvm' = [tvm EXCEPT ![t] = NoVM]
                    /\ pc' = [pc EXCEPT ![t] = "idle"]
                    /\ cid_counter' = cid_counter
    /\ UNCHANGED <<othervars, cfgvars, started, shutdown, available, call_count,
                   tainted, idle, pending, req, maintvars, stopvars,
                   next_rid, late, create_failed>>

ReleaseDestroyEnd(t) ==
    /\ pc[t] = "rel_destroy"
    /\ all_vms' = all_vms \ {tvm[t]}
    /\ in_use' = SeqRemove(in_use, tvm[t])
    /\ IF Cardinality(all_vms') < min_size
       THEN /\ cid_counter < CidBase + MaxVMs
            /\ cid_counter' = NextCid(cid_counter)
            /\ vmst' = [StopProcess(vmst, tvm[t])
                          EXCEPT ![cid_counter + 1] = "booting"]
            /\ tvm' = [tvm EXCEPT ![t] = cid_counter + 1]
            /\ pc' = [pc EXCEPT ![t] = "rel_create"]
       ELSE /\ vmst' = StopProcess(vmst, tvm[t])
            /\ tvm' = [tvm EXCEPT ![t] = NoVM]
            /\ pc' = [pc EXCEPT ![t] = "idle"]
            /\ cid_counter' = cid_counter
    /\ UNCHANGED <<othervars, cfgvars, started, shutdown, available, call_count,
                   tainted, idle, pending, req, res, maintvars, stopvars,
                   next_rid, late, create_failed>>

\* _release_vm: the replacement is ready: entered in all and put on the
\* available queue.
ReplaceOk(t) ==
    /\ pc[t] = "rel_create"
    /\ vmst' = [vmst EXCEPT ![tvm[t]] = "ready"]
    /\ all_vms' = all_vms \cup {tvm[t]}
    /\ available' = Append(available, tvm[t])
    /\ tvm' = [tvm EXCEPT ![t] = NoVM]
    /\ pc' = [pc EXCEPT ![t] = "idle"]
    /\ UNCHANGED <<othervars, cfgvars, started, shutdown, cid_counter, in_use,
                   call_count, tainted, idle, pending, req, res, maintvars,
                   stopvars, next_rid, late, create_failed>>

\* _release_vm: creating the replacement failed; logged, the call is over.
ReplaceFail(t) ==
    /\ pc[t] = "rel_create"
    /\ vmst' = [vmst EXCEPT ![tvm[t]] = "failed"]
    /\ tvm' = [tvm EXCEPT ![t] = NoVM]
    /\ pc' = [pc EXCEPT ![t] = "idle"]
    /\ create_failed' = TRUE
    /\ UNCHANGED <<othervars, cfgvars, started, shutdown, cid_counter, all_vms, in_use,
                   available, call_count, tainted, idle, pending, req, res,
                   maintvars, stopvars, next_rid, late>>

\* _release_vm: runner.stop_vm raises inside _destroy_vm (an Exception of
\* the driver, such as the ProcessLookupError of process.kill() in
\* LocalFirecrackerRunner.stop_vm's timeout handler).  Nothing catches it in
\* _destroy_vm or _release_vm: the pops are skipped and the exception leaves
\* acquire()'s finally, and with it execute, in place of the call's outcome.
ReleaseDestroyRaise(t) ==
    /\ pc[t] = "rel_destroy"
    /\ res' = [res EXCEPT ![t] = [kind |-> "destroy_error", rid |-> 0]]
    /\ tvm' = [tvm EXCEPT ![t] = NoVM]
    /\ pc' = [pc EXCEPT ![t] = "idle"]
    /\ UNCHANGED <<othervars, cfgvars, started, shutdown, cid_counter, all_vms,
                   in_use, available, vmst, call_count, tainted, idle,
                   pending, req, maintvars, stopvars, next_rid, late,
                   create_failed>>

\* _release_vm: the replacement's process was started and its ready probe
\* failed; logged, the call is over.
ReplaceUnready(t) ==
    /\ pc[t] = "rel_create"
    /\ vmst' = [vmst EXCEPT ![tvm[t]] = "unready"]
    /\ tvm' = [tvm EXCEPT ![t] = NoVM]
    /\ pc' = [pc EXCEPT ![t] = "idle"]
    /\ create_failed' = TRUE
    /\ UNCHANGED <<othervars, cfgvars, started, shutdown, cid_counter, all_vms, in_use,
                   available, call_count, tainted, idle, pending, req, res,
                   maintvars, stopvars, next_rid, late>>

\* A caller that starts its call when no other call is in progress.
SeqExecute(t) ==
    /\ \A u \in Tasks : pc[u] = "idle"
    /\ Execute(t)

\* ----------------------------------------------------------- maintenance

\* The for loop of a maintenance pass over vms_to_check, from where it stands
\* to its next suspension (the _destroy_vm of an idle VM) or to its end.
\* list holds the VMs still to check, each with its idle age against the
\* pass's `now`; total is len(_all_vms), which the loop itself does not
\* change before it suspends.
RECURSIVE MaintScanNoFloor(_, _, _)
MaintScanNoFloor(list, avail, total) ==
    IF list = <<>> THEN [avail |-> avail, rest |-> <<>>, cur |-> NoVM]
    ELSE IF Head(list).idle
    THEN [avail |-> avail, rest |-> Tail(list), cur |-> Head(list).vm]
    ELSE MaintScanNoFloor(Tail(list), Append(avail, Head(list).vm), total)

RECURSIVE MaintScan(_, _, _)
MaintScan(list, avail, total) ==
    IF list = <<>> THEN [avail |-> avail, rest |-> <<>>, cur |-> NoVM]
    ELSE IF Head(list).idle /\ total > min_size
    THEN [avail |-> avail, rest |-> Tail(list), cur |-> Head(list).vm]
    ELSE MaintScan(Tail(list), Append(avail, Head(list).vm), total)

\* _maintenance_loop wakes from sleep(60): drains the available queue into
\* vms_to_check and runs the for loop to its first _destroy_vm.
MaintWake ==
    /\ started
    /\ mpc = "sleep"
    /\ LET list == [i \in DOMAIN available |->
                      [vm |-> available[i], idle |-> idle[available[i]]]]
           r == MaintScan(list, <<>>, total_count)
       IN /\ available' = r.avail
          /\ mlist' = r.rest
          /\ mcur' = r.cur
          /\ mpc' = IF r.cur = NoVM THEN "sleep" ELSE "destroy"
          /\ vmst' = IF r.cur = NoVM THEN vmst ELSE CloseClient(vmst, r.cur)
    /\ UNCHANGED <<othervars, cfgvars, started, shutdown, cid_counter, all_vms, in_use,
                   call_count, tainted, idle, pending, pc, tvm, req, res,
                   stopvars, next_rid, late, create_failed>>

\* The pass's _destroy_vm resumes after stop_vm: pops, then the for loop
\* goes on to its next _destroy_vm or to the end of the pass.
MaintDestroyEnd ==
    /\ mpc = "destroy"
    /\ all_vms' = all_vms \ {mcur}
    /\ in_use' = SeqRemove(in_use, mcur)
    /\ LET r == MaintScan(mlist, available, Cardinality(all_vms'))
       IN /\ available' = r.avail
          /\ mlist' = r.rest
          /\ mcur' = r.cur
          /\ mpc' = IF r.cur = NoVM THEN "sleep" ELSE "destroy"
          /\ vmst' = IF r.cur = NoVM THEN StopProcess(vmst, mcur)
                     ELSE CloseClient(StopProcess(vmst, mcur), r.cur)
    /\ UNCHANGED <<othervars, cfgvars, started, shutdown, cid_counter, call_count,
                   tainted, idle, pending, pc, tvm, req, res, stopvars,
                   next_rid, late, create_failed>>

\* Time passes: every VM that sits in the available queue (or in a running
\* pass's vms_to_check) has now been idle for longer than idle_timeout.
\* Only the maintenance loop reads the idle age.
Tick ==
    /\ started
    /\ mpc # "done"
    /\ LET aged == Range(available) \cup {mlist[i].vm : i \in DOMAIN mlist}
       IN /\ \E v \in aged : ~idle[v]
          /\ idle' = [v \in VMs |-> idle[v] \/ v \in aged]
    /\ UNCHANGED <<othervars, cfgvars, started, shutdown, cid_counter, all_vms, in_use,
                   available, vmst, call_count, tainted, pending, pc, tvm,
                   req, res, maintvars, stopvars, next_rid, late,
                   create_failed>>

\* ------------------------------------------------------------------ stop

\* stop(): sets _shutdown and cancels the maintenance task, then waits for
\* it.  The CancelledError reaches the task at its suspension (the sleep, or
\* the stop_vm of the pass's _destroy_vm) before it can run anything else,
\* and ends the loop there: what the pass still held is dropped.
StopBegin ==
    /\ started
    /\ spc = "idle"
    /\ shutdown' = TRUE
    /\ mpc' = "done"
    /\ spc' = "join"
    /\ UNCHANGED <<othervars, cfgvars, started, cid_counter, all_vms, in_use, available,
                   vmst, call_count, tainted, idle, pending, pc, tvm, req,
                   res, mcur, mlist, scur, slist, next_rid, late,
                   create_failed>>

\* stop()'s loop over the available queue: resumed (after the join, or
\* after a _destroy_vm's stop_vm), it finishes that _destroy_vm, then takes
\* the next VM off the queue and starts to destroy it; with the queue empty
\* it snapshots in_use and starts on its first VM.
StopDrain ==
    /\ spc \in {"join", "drain_destroy"}
    /\ LET done == spc = "drain_destroy"
           all1 == IF done THEN all_vms \ {scur} ELSE all_vms
           use1 == IF done THEN SeqRemove(in_use, scur) ELSE in_use
           st1 == IF done THEN StopProcess(vmst, scur) ELSE vmst
       IN /\ all_vms' = all1
          /\ in_use' = use1
          /\ IF available # <<>>
             THEN /\ available' = Tail(available)
                  /\ scur' = Head(available)
                  /\ vmst' = CloseClient(st1, Head(available))
                  /\ spc' = "drain_destroy"
                  /\ slist' = slist
             ELSE IF use1 # <<>>
             THEN /\ scur' = Head(use1)
                  /\ slist' = Tail(use1)
                  /\ vmst' = CloseClient(st1, Head(use1))
                  /\ spc' = "inuse_destroy"
                  /\ available' = available
             ELSE /\ scur' = NoVM
                  /\ vmst' = st1
                  /\ spc' = "done"
                  /\ UNCHANGED <<available, slist>>
    /\ UNCHANGED <<othervars, cfgvars, started, shutdown, cid_counter, call_count,
                   tainted, idle, pending, pc, tvm, req, res, maintvars,
                   next_rid, late, create_failed>>

\* stop()'s loop over list(self._in_use.values()): finishes the current
\* _destroy_vm and starts the next one, or returns.
StopInUse ==
    /\ spc = "inuse_destroy"
    /\ all_vms' = all_vms \ {scur}
    /\ in_use' = SeqRemove(in_use, scur)
    /\ IF slist # <<>>
       THEN /\ scur' = Head(slist)
            /\ slist' = Tail(slist)
            /\ vmst' = CloseClient(StopProcess(vmst, scur), Head(slist))
            /\ spc' = spc
       ELSE /\ scur' = NoVM
            /\ slist' = slist
            /\ vmst' = StopProcess(vmst, scur)
            /\ spc' = "done"
    /\ UNCHANGED <<othervars, cfgvars, started, shutdown, cid_counter, available,
                   call_count, tainted, idle, pending, pc, tvm, req, res,
                   maintvars, next_rid, late, create_failed>>

\* --------------------------------------------------- the executor's loop

ExecRequests ==
    {r \in [has_id : BOOLEAN, request_id : 0..MaxExecIds,
            command : {"none", "install", "other"},
            function_ref : SeqsUpTo(RefChars, MaxRefLen),
            dependencies : SeqsUpTo(DepNames, MaxDeps)] :
        /\ r.has_id <=> r.request_id # UnknownId
        /\ r.command = "install" => r.function_ref = <<>>
        /\ r.command # "install" => r.dependencies = <<>>}

NoResponse == WithRequestId(Failure("none"), UnknownId)

ExecIdle ==
    /\ ex_req = CallRequest(1)
    /\ ex_out = "none"
    /\ ex_resp = NoResponse
    /\ ex_import = NoImport
    /\ ex_sent = FALSE

\* _handle_connection has read and decoded one request.
ExecInit ==
    /\ ex_req \in ExecRequests
    /\ ex_out = "none"
    /\ ex_resp = NoResponse
    /\ ex_import = NoImport
    /\ ex_sent = FALSE

\* The call of the function leaves execute_function as an exception: its
\* except clause takes Exception, and so do _handle_connection's and the
\* accept loop's.
Escapes(request, out) ==
    /\ request.command # "install"
    /\ HasColon(request.function_ref)
    /\ out = "system_exit"

\* serialize(response) packs the response.
Serializable(request, out) ==
    ~(/\ request.command # "install"
      /\ HasColon(request.function_ref)
      /\ out = "unserializable")

\* _handle_connection: response = handle_request(request), serialized and
\* sent back.  When the call escapes there is no response and the executor
\* process ends; when the response cannot be packed the error is logged and
\* the connection closed without a response.
ExecHandle(out) ==
    /\ ex_out = "none"
    /\ out \in IF ex_req.command = "install" THEN InstallOutcomes
               ELSE FnOutcomes
    /\ ex_out' = out
    /\ IF Escapes(ex_req, out)
       THEN /\ ex_resp' = NoResponse
            /\ ex_sent' = FALSE
       ELSE /\ ex_resp' = HandleRequest(ex_req, out)
            /\ ex_sent' = Serializable(ex_req, out)
    /\ ex_import' = IF ex_req.command = "install" THEN NoImport
                    ELSE ImportFunction(ex_req.function_ref)
    /\ UNCHANGED <<ex_req, poolvars, guest_fn, sidevars, mgrvars, profvars>>

\* _handle_connection: the next request of the connection is read.
ExecRecv(r) ==
    /\ ex_out # "none"
    /\ ~Escapes(ex_req, ex_out)
    /\ ex_req' = r
    /\ ex_out' = "none"
    /\ ex_resp' = NoResponse
    /\ ex_import' = NoImport
    /\ ex_sent' = FALSE
    /\ UNCHANGED <<poolvars, guest_fn, sidevars, mgrvars, profvars>>

\* ------------------------------------------------- stub and manager
\* SandboxManager.execute_async around pool.execute: what the stub's caller
\* gets for a result of pool.execute.  A response goes through
\* SandboxStub.handle_response (the value, or deserialize_exception's
\* SandboxError carrying the remote type); asyncio.TimeoutError becomes
\* SandboxTimeoutError; every other exception passes unchanged.
CallerSees(r) ==
    CASE r.kind = "response" ->
           IF r.success THEN [class |-> "value", original_type |-> "none"]
           ELSE IF r.error # "none"
           THEN [class |-> "SandboxError", original_type |-> r.error]
           ELSE [class |-> "SandboxError", original_type |-> "Unknown"]
      [] r.kind = "timeout" ->
           [class |-> "SandboxTimeoutError", original_type |-> "TimeoutError"]
      [] r.kind = "exhausted" ->
           [class |-> "VMPoolExhaustedError", original_type |-> "none"]
      [] r.kind = "startup" ->
           [class |-> "VMStartupError", original_type |-> "none"]
      [] r.kind = "cancelled" ->
           [class |-> "CancelledError", original_type |-> "none"]
      [] OTHER -> [class |-> "Exception", original_type |-> "none"]

\* ----------------------------------------------------------- PoolManager
\* One event loop runs the caller tasks' execute_async and one shutdown().
\* Each pool object is a VMWorkerPool with the default PoolConfig
\* (min_size = 1); what goes on inside one pool is the subject of the pool
\* actions above, so here pool.execute is one step: it takes a VM of the
\* pool's own collection (or creates one when the pool has none), sends the
\* request over that VM's client and releases the VM.

\* Profile keys of the stubs in use.
Keys == {"k1", "k2"}
\* Pool objects constructed over a run, and channel ids handed out per pool.
MaxPools == 2
MaxCids == 2

PoolIds == 1..MaxPools
NoPool == 0
NoTask == 0
\* The caller of PoolManager.shutdown, as an owner / waiter of the lock.
Shutdowner == NumTasks + 1

\* A VM: the pool object that created it, and its channel id.  Every pool
\* counts its channel ids from CidBase.
MgrCids == (CidBase + 1)..(CidBase + MaxCids)
Guests == PoolIds \X MgrCids
NoGuest == <<NoPool, CidBase>>

\* vm_id = f"{self.profile_key}-{cid}"
VmId(g) == <<pool_key[g[1]], g[2]>>

MgrIdle ==
    /\ pools = [k \in Keys |-> NoPool]
    /\ mgr_lock = NoTask
    /\ mgr_waiters = <<>>
    /\ gpc = [t \in Tasks |-> "idle"]
    /\ gkey = [t \in Tasks |-> "none"]
    /\ gpool = [t \in Tasks |-> NoPool]
    /\ served = [t \in Tasks |-> NoGuest]
    /\ sdpc = "idle"
    /\ pool_key = [i \in PoolIds |-> "none"]
    /\ pool_st = [i \in PoolIds |-> "none"]
    /\ pool_vms = [i \in PoolIds |-> {}]
    /\ pool_cid = [i \in PoolIds |-> CidBase]
    /\ guests = {}
    /\ peer = [g \in Guests |-> NoGuest]

\* asyncio.Lock.release: the lock goes to the longest waiter, if any (a
\* waiting acquire is woken and no later acquire can overtake it).
LockRelease ==
    IF mgr_waiters = <<>>
    THEN /\ mgr_lock' = NoTask
         /\ mgr_waiters' = mgr_waiters
    ELSE /\ mgr_lock' = Head(mgr_waiters)
         /\ mgr_waiters' = Tail(mgr_waiters)

\* get_pool's test: profile_key in self._pools
HasPoolNever(k) == FALSE

HasPool(k) == pools[k] # NoPool

\* get_pool under the lock, up to its suspension or its return: with the key
\* in the directory it returns the entry; otherwise it constructs a
\* VMWorkerPool and awaits pool.start(), still holding the lock.
GetPoolLocked(t, k) ==
    IF HasPool(k)
    THEN /\ gpool' = [gpool EXCEPT ![t] = pools[k]]
         /\ gpc' = [gpc EXCEPT ![t] = "have_pool"]
         /\ UNCHANGED <<pool_key, pool_st>>
    ELSE \E i \in PoolIds :
           /\ pool_st[i] = "none"
           /\ \A j \in PoolIds : j < i => pool_st[j] # "none"
           /\ pool_key' = [pool_key EXCEPT ![i] = k]
           /\ pool_st' = [pool_st EXCEPT ![i] = "starting"]
           /\ gpool' = [gpool EXCEPT ![t] = i]
           /\ gpc' = [gpc EXCEPT ![t] = "starting"]

\* execute_async(stub) with stub.profile_key = k: get_pool is entered.  With
\* the lock free the task takes it and runs on; otherwise it waits for it.
ExecuteAsync(t, k) ==
    /\ gpc[t] = "idle"
    /\ gkey' = [gkey EXCEPT ![t] = k]
    /\ served' = [served EXCEPT ![t] = NoGuest]
    /\ IF mgr_lock = NoTask
       THEN /\ GetPoolLocked(t, k)
            /\ IF gpc'[t] = "have_pool"
               THEN UNCHANGED <<mgr_lock, mgr_waiters>>
               ELSE /\ mgr_lock' = t
                    /\ mgr_waiters' = mgr_waiters
       ELSE /\ mgr_waiters' = Append(mgr_waiters, t)
            /\ gpc' = [gpc EXCEPT ![t] = "lock_wait"]
            /\ UNCHANGED <<mgr_lock, gpool, pool_key, pool_st>>
    /\ UNCHANGED <<nonmgrvars, pools, sdpc,
                   pool_vms, pool_cid, guests, peer>>

\* A task that waited for the lock has it and runs get_pool's body.
GetPoolResume(t) ==
    /\ gpc[t] = "lock_wait"
    /\ mgr_lock = t
    /\ GetPoolLocked(t, gkey[t])
    /\ IF gpc'[t] = "have_pool"
       THEN LockRelease
       ELSE UNCHANGED <<mgr_lock, mgr_waiters>>
    /\ UNCHANGED <<nonmgrvars, pools, gkey,
                   served, sdpc, pool_vms, pool_cid, guests, peer>>

\* The guests a connect to (cid, port) can reach: the running VMs whose
\* guest channel id is cid.  Pools number their VMs independently, so VMs of
\* two pools can carry the same channel id; which of them answers the
\* connect is up to the host's vsock transport.
Endpoints(cid, running) == {h \in running : h[2] = cid}

\* _create_vm of pool object i: the next channel id of that pool, start_vm,
\* then the ready probe's RPCClient(cid, port).connect(); the VM is entered
\* in the pool's collection.  A failure (ok = FALSE) leaves nothing.
PoolCreateVm(i, ok, p) ==
    LET g == <<i, pool_cid[i] + 1>>
    IN /\ pool_cid' = [pool_cid EXCEPT ![i] = @ + 1]
       /\ IF ok
          THEN /\ p \in Endpoints(g[2], guests \cup {g})
               /\ guests' = guests \cup {g}
               /\ peer' = [peer EXCEPT ![g] = p]
               /\ pool_vms' = [pool_vms EXCEPT ![i] = @ \cup {g}]
          ELSE /\ p = NoGuest
               /\ UNCHANGED <<guests, peer, pool_vms>>

\* pool.start() has returned in get_pool: the initial VM was created or its
\* failure logged; the pool is entered in the directory and returned.
PoolStartDone(t, ok, p) ==
    /\ gpc[t] = "starting"
    /\ PoolCreateVm(gpool[t], ok, p)
    /\ pool_st' = [pool_st EXCEPT ![gpool[t]] = "started"]
    /\ pools' = [pools EXCEPT ![gkey[t]] = gpool[t]]
    /\ gpc' = [gpc EXCEPT ![t] = "have_pool"]
    /\ LockRelease
    /\ UNCHANGED <<nonmgrvars, gkey, gpool,
                   served, sdpc, pool_key>>

\* pool.start() raises in get_pool (provision_snapshot of a profile with
\* dependencies failed): the pool object is dropped, the error leaves
\* get_pool and execute_async.
PoolStartRaise(t) ==
    /\ gpc[t] = "starting"
    /\ pool_st' = [pool_st EXCEPT ![gpool[t]] = "failed"]
    /\ gpool' = [gpool EXCEPT ![t] = NoPool]
    /\ gpc' = [gpc EXCEPT ![t] = "idle"]
    /\ LockRelease
    /\ UNCHANGED <<nonmgrvars, pools, gkey,
                   served, sdpc, pool_key, pool_vms, pool_cid, guests, peer>>

\* request = stub.create_request(...); pool.execute(request) on the pool
\* get_pool returned.  The pool takes a VM g of its own collection; with
\* none there the acquire creates one (no test of the pool's shutdown flag).
\* The request travels over g's client, to the guest that client is
\* connected to; with that guest gone the call fails.
PoolExecute(t, ok, p) ==
    /\ gpc[t] = "have_pool"
    /\ LET i == gpool[t]
       IN IF pool_vms[i] # {}
          THEN /\ ok
               /\ p = NoGuest
               /\ \E g \in pool_vms[i] :
                    served' = [served EXCEPT ![t] =
                                 IF peer[g] \in guests THEN peer[g]
                                 ELSE NoGuest]
               /\ UNCHANGED <<pool_cid, guests, peer, pool_vms>>
          ELSE /\ pool_cid[i] < CidBase + MaxCids
               /\ PoolCreateVm(i, ok, p)
               /\ served' = [served EXCEPT ![t] = p]
    /\ gpc' = [gpc EXCEPT ![t] = "idle"]
    /\ UNCHANGED <<nonmgrvars, pools, mgr_lock,
                   mgr_waiters, gkey, gpool, sdpc, pool_key, pool_st>>

\* PoolManager.shutdown is called: it takes the lock or waits for it.
SdBegin ==
    /\ sdpc = "idle"
    /\ \E i \in PoolIds : pool_st[i] # "none"
    /\ IF mgr_lock = NoTask
       THEN /\ mgr_lock' = Shutdowner
            /\ mgr_waiters' = mgr_waiters
            /\ sdpc' = "stopping"
       ELSE /\ mgr_waiters' = Append(mgr_waiters, Shutdowner)
            /\ mgr_lock' = mgr_lock
            /\ sdpc' = "lock_wait"
    /\ UNCHANGED <<nonmgrvars, pools, gpc, gkey,
                   gpool, served, pool_key, pool_st, pool_vms, pool_cid,
                   guests, peer>>

SdResume ==
    /\ sdpc = "lock_wait"
    /\ mgr_lock = Shutdowner
    /\ sdpc' = "stopping"
    /\ UNCHANGED <<nonmgrvars, pools, mgr_lock,
                   mgr_waiters, gpc, gkey, gpool, served, pool_key, pool_st,
                   pool_vms, pool_cid, guests, peer>>

\* shutdown's loop: await pool.stop() of the next pool of the directory;
\* the pool's VMs are stopped and leave its collection.
SdStopPool(k) ==
    /\ sdpc = "stopping"
    /\ pools[k] # NoPool
    /\ pool_st[pools[k]] = "started"
    /\ pool_st' = [pool_st EXCEPT ![pools[k]] = "stopped"]
    /\ guests' = guests \ pool_vms[pools[k]]
    /\ pool_vms' = [pool_vms EXCEPT ![pools[k]] = {}]
    /\ UNCHANGED <<nonmgrvars, pools, mgr_lock,
                   mgr_waiters, gpc, gkey, gpool, served, sdpc, pool_key,
                   pool_cid, peer>>

\* shutdown: every pool of the directory is stopped; self._pools.clear()
\* and the lock is released.
SdClear ==
    /\ sdpc = "stopping"
    /\ \A k \in Keys : pools[k] # NoPool => pool_st[pools[k]] = "stopped"
    /\ pools' = [k \in Keys |-> NoPool]
    /\ sdpc' = "idle"
    /\ LockRelease
    /\ UNCHANGED <<nonmgrvars, gpc, gkey, gpool,
                   served, pool_key, pool_st, pool_vms, pool_cid, guests,
                   peer>>

\* ------------------------------------------------- the runner's snapshots
\* The runner of a SandboxManager is shared by the pools of its PoolManager.
\* pool.start() runs inside get_pool, under the manager's lock.

\* The dependencies of the profile behind each key.
KeyDeps(k) == IF k = "k1" THEN <<<<"a">>>> ELSE <<>>

\* None, and the SnapshotInfo provision_snapshot builds for a key.
NoSnapshot ==
    [absent |-> TRUE, snapshot_path |-> <<>>, mem_path |-> <<>>,
     profile_key |-> "none", dependencies |-> <<>>]

SnapshotInfo(k) ==
    [absent |-> FALSE,
     snapshot_path |-> <<"snapshot_dir", k, "snapshot">>,
     mem_path |-> <<"snapshot_dir", k, "mem">>,
     profile_key |-> k,
     dependencies |-> KeyDeps(k)]

RunnerIdle ==
    /\ snapshots = [k \in Keys |-> NoSnapshot]
    /\ pool_snap = [i \in PoolIds |-> NoSnapshot]
    /\ pool_prov = [i \in PoolIds |-> "unasked"]
    /\ provisioned = [k \in Keys |-> 0]

\* provision_snapshot's test: profile_key in self._snapshots
CachedNever(cache, k) == FALSE

Cached(cache, k) == ~cache[k].absent

\* provision_snapshot up to its first suspension: what it returns at once,
\* or "miss" when it goes on to provision.
ProvisionEntry(dependencies, k, cache) ==
    IF dependencies = <<>> THEN [kind |-> "return", value |-> NoSnapshot]
    ELSE IF Cached(cache, k) THEN [kind |-> "return", value |-> cache[k]]
    ELSE [kind |-> "miss", value |-> NoSnapshot]

\* pool.start() of the pool get_pool constructed, up to the suspension in
\* provision_snapshot or to the loop that creates the initial VMs.
StartProvision(t) ==
    /\ gpc[t] = "starting"
    /\ pool_prov[gpool[t]] = "unasked"
    /\ LET i == gpool[t]
           k == gkey[t]
           entry == ProvisionEntry(KeyDeps(k), k, snapshots)
       IN IF KeyDeps(k) = <<>>
          THEN /\ pool_prov' = [pool_prov EXCEPT ![i] = "done"]
               /\ UNCHANGED pool_snap
          ELSE IF entry.kind = "return"
          THEN /\ pool_snap' = [pool_snap EXCEPT ![i] = entry.value]
               /\ pool_prov' = [pool_prov EXCEPT ![i] = "done"]
          ELSE /\ pool_prov' = [pool_prov EXCEPT ![i] = "provisioning"]
               /\ UNCHANGED pool_snap
    /\ UNCHANGED <<nonrunnervars, snapshots, provisioned>>

\* The provisioning VM was started, the dependencies installed and the
\* snapshot taken: the record is cached and returned to pool.start().
ProvisionDone(t) ==
    /\ gpc[t] = "starting"
    /\ pool_prov[gpool[t]] = "provisioning"
    /\ provisioned[gkey[t]] < MaxPools
    /\ snapshots' = [snapshots EXCEPT ![gkey[t]] = SnapshotInfo(gkey[t])]
    /\ provisioned' = [provisioned EXCEPT ![gkey[t]] = @ + 1]
    /\ pool_snap' = [pool_snap EXCEPT ![gpool[t]] = SnapshotInfo(gkey[t])]
    /\ pool_prov' = [pool_prov EXCEPT ![gpool[t]] = "done"]
    /\ UNCHANGED nonrunnervars

\* start_vm, the install or the snapshot failed: nothing is cached and the
\* error leaves provision_snapshot, pool.start() and get_pool.
ProvisionRaise(t) ==
    /\ gpc[t] = "starting"
    /\ pool_prov[gpool[t]] = "provisioning"
    /\ PoolStartRaise(t)

\* The rest of pool.start(), once the snapshot question is settled.
StartCreate(t, ok, p) ==
    /\ gpc[t] = "starting"
    /\ pool_prov[gpool[t]] = "done"
    /\ PoolStartDone(t, ok, p)

\* ---------------------------------------------------------- wire framing
\* One direction of a connection: VsockConnection.send on one end, the
\* byte stream, VsockConnection.recv on the other end.  A byte is a number
\* below 256.  recv is one task; each of its steps is one completed
\* sock_recv.

\* Messages per run and bytes per payload.
MaxMsgs == 2
MaxPayload == 2

HEADER_SIZE == 4
\* The most recv asks of one sock_recv for the payload.
ChunkMax == 65536

\* Bytes of a payload, and the bytes a peer can write by itself.
PayloadBytes == {0, 1}
RawBytes == {0, 1, 127}

Min(a, b) == IF a < b THEN a ELSE b

Payloads == SeqsUpTo(PayloadBytes, MaxPayload)

\* struct.pack(">I", length), for a length below 2^31
PackHeader(n) ==
    <<n \div 16777216, (n \div 65536) % 256, (n \div 256) % 256, n % 256>>

\* pack_message
PackMessage(payload) == PackHeader(Len(payload)) \o payload

\* struct.unpack(">I", header)[0]
UnpackHeaderLittleEndian(h) ==
    ((h[4] * 256 + h[3]) * 256 + h[2]) * 256 + h[1]

UnpackHeader(h) == ((h[1] * 256 + h[2]) * 256 + h[3]) * 256 + h[4]

Returned(payload) == [ok |-> TRUE, data |-> payload, error |-> "none"]
Raised(error) == [ok |-> FALSE, data |-> <<>>, error |-> error]

WireIdle ==
    /\ sent = <<>>
    /\ stream = <<>>
    /\ eof = FALSE
    /\ dropped = 0
    /\ rpos = "idle"
    /\ header = <<>>
    /\ length = 0
    /\ data = <<>>
    /\ received = <<>>

\* send(data): pack_message and sock_sendall.
Send(payload) ==
    /\ ~eof
    /\ Len(sent) < MaxMsgs
    /\ sent' = Append(sent, payload)
    /\ stream' = stream \o PackMessage(payload)
    /\ UNCHANGED <<nonwirevars, eof, dropped, rpos, header, length, data,
                   received>>

\* A peer that does not use send writes bytes of its own, before the
\* reading end calls recv.
WriteRaw(bytes) ==
    /\ ~eof
    /\ sent = <<>>
    /\ stream = <<>>
    /\ rpos = "idle"
    /\ received = <<>>
    /\ stream' = bytes
    /\ UNCHANGED <<nonwirevars, sent, eof, dropped, rpos, header, length,
                   data, received>>

\* The writing end is closed, or its process dies: the last drop bytes it
\* passed to sock_sendall never arrive.
Close(drop) ==
    /\ ~eof
    /\ drop \in 0..Len(stream)
    /\ eof' = TRUE
    /\ dropped' = drop
    /\ stream' = SubSeq(stream, 1, Len(stream) - drop)
    /\ UNCHANGED <<nonwirevars, sent, rpos, header, length, data, received>>

\* recv() is called: it awaits its first sock_recv for the header.
RecvBegin ==
    /\ rpos = "idle"
    /\ Len(received) <= MaxMsgs
    /\ rpos' = "header"
    /\ header' = <<>>
    /\ length' = 0
    /\ data' = <<>>
    /\ UNCHANGED <<nonwirevars, sent, stream, eof, dropped, received>>

\* How many bytes recv asks of its next sock_recv.
Want ==
    IF rpos = "header" THEN HEADER_SIZE - Len(header)
    ELSE Min(ChunkMax, length - Len(data))

\* A sock_recv returns n bytes, at least one and at most what was asked for
\* and what has arrived; recv runs on to its next sock_recv or to its return.
RecvChunk(n) ==
    /\ rpos \in {"header", "data"}
    /\ n \in 1..Min(Want, Len(stream))
    /\ stream' = SubSeq(stream, n + 1, Len(stream))
    /\ LET chunk == SubSeq(stream, 1, n)
       IN IF rpos = "header"
          THEN /\ header' = header \o chunk
               /\ data' = <<>>
               /\ IF Len(header') < HEADER_SIZE
                  THEN UNCHANGED <<rpos, length, received>>
                  ELSE /\ length' = UnpackHeader(header')
                       /\ IF Len(data') < length'
                          THEN /\ rpos' = "data"
                               /\ UNCHANGED received
                          ELSE /\ rpos' = "idle"
                               /\ received' = Append(received,
                                                     Returned(data'))
          ELSE /\ data' = data \o chunk
               /\ UNCHANGED <<header, length>>
               /\ IF Len(data') < length
                  THEN UNCHANGED <<rpos, received>>
                  ELSE /\ rpos' = "idle"
                       /\ received' = Append(received, Returned(data'))
    /\ UNCHANGED <<nonwirevars, sent, eof, dropped>>

\* A sock_recv returns b"": the stream has ended.  recv raises
\* ConnectionError.
RecvEof ==
    /\ rpos \in {"header", "data"}
    /\ stream = <<>>
    /\ eof
    /\ rpos' = "idle"
    /\ received' = Append(received, Raised("ConnectionError"))
    /\ UNCHANGED <<nonwirevars, sent, stream, eof, dropped, header, length,
                   data>>

\* ------------------------------------------- provisioning a snapshot
\* LocalFirecrackerRunner.provision_snapshot for key "k1" after the cache
\* missed: the provisioning VM, _install_dependencies over the guest's
\* end of the connection above (stream, eof), the snapshot call, and the
\* stop_vm of the finally clause.  in_pc is where it stands:
\*   "header", "data"  suspended in a sock_recv of the response
\*   "snapshot"        suspended in _create_snapshot_via_api
\*   "stop_ok", "stop_raised"  suspended in the finally's stop_vm, with
\*                     the value to return or an exception under way
\*   "returned", "raised"      provision_snapshot is over

InstallIdle ==
    /\ in_pc = "idle"
    /\ in_header = <<>>
    /\ in_length = 0
    /\ in_data = <<>>
    /\ in_vm = "none"
    /\ in_spun = FALSE

\* msgpack.unpackb(resp_data) and response.get("success"): the payload's
\* first byte stands for the response's success flag.
InstallSucceeded(resp_data) == resp_data # <<>> /\ resp_data[1] = 1

\* provision_snapshot: start_vm returns the provisioning VM; then
\* _install_dependencies sleeps, connects and sends the install request.
\* connected tells whether sock_connect succeeds; an OSError is logged and
\* raised, into the finally clause.
InstallBegin(connected) ==
    /\ in_pc = "idle"
    /\ ~Cached(snapshots, "k1")
    /\ in_vm' = "running"
    /\ in_pc' = IF connected THEN "header" ELSE "stop_raised"
    /\ UNCHANGED <<in_header, in_length, in_data, in_spun, snapshots,
                   pool_snap, pool_prov, provisioned, wirevars,
                   noninstallvars>>

\* The response is complete: a failure raises RuntimeError, a success goes
\* on to _create_snapshot_via_api.
InstallAnswered(resp_data) ==
    IF InstallSucceeded(resp_data) THEN "snapshot" ELSE "stop_raised"

\* A sock_recv of the response returns n bytes, at least one and at most
\* what was asked for (4 - len(resp_header), or length - len(resp_data))
\* and what has arrived.
InstallRecvChunk(n) ==
    /\ in_pc \in {"header", "data"}
    /\ n \in 1..Min(IF in_pc = "header" THEN HEADER_SIZE - Len(in_header)
                    ELSE in_length - Len(in_data),
                    Len(stream))
    /\ stream' = SubSeq(stream, n + 1, Len(stream))
    /\ LET chunk == SubSeq(stream, 1, n)
       IN IF in_pc = "header"
          THEN /\ in_header' = in_header \o chunk
               /\ in_data' = <<>>
               /\ IF Len(in_header') < HEADER_SIZE
                  THEN UNCHANGED <<in_pc, in_length>>
                  ELSE /\ in_length' = UnpackHeader(in_header')
                       /\ in_pc' = IF Len(in_data') < in_length'
                                   THEN "data"
                                   ELSE InstallAnswered(in_data')
          ELSE /\ in_data' = in_data \o chunk
               /\ UNCHANGED <<in_header, in_length>>
               /\ in_pc' = IF Len(in_data') < in_length THEN "data"
                           ELSE InstallAnswered(in_data')
    /\ UNCHANGED <<in_vm, in_spun, runnervars, sent, eof, dropped, rpos,
                   header, length, data, received, noninstallvars>>

\* A sock_recv of the response returns b"": the guest's end is closed and
\* everything that arrived has been read.  `resp_header += chunk` (or
\* `resp_data += chunk`) adds nothing and the while loop asks again.
InstallRecvEmpty ==
    /\ in_pc \in {"header", "data"}
    /\ stream = <<>>
    /\ eof
    /\ in_spun' = TRUE
    /\ UNCHANGED <<in_pc, in_header, in_length, in_data, in_vm, runnervars,
                   wirevars, noninstallvars>>

\* _create_snapshot_via_api returns (the record is cached and is the value
\* to return) or raises; either way the finally clause calls stop_vm.
SnapshotTaken(ok) ==
    /\ in_pc = "snapshot"
    /\ IF ok
       THEN /\ snapshots' = [snapshots EXCEPT !["k1"] = SnapshotInfo("k1")]
            /\ in_pc' = "stop_ok"
       ELSE /\ snapshots' = snapshots
            /\ in_pc' = "stop_raised"
    /\ UNCHANGED <<in_header, in_length, in_data, in_vm, in_spun, pool_snap,
                   pool_prov, provisioned, wirevars, noninstallvars>>

\* The finally's stop_vm returned: provision_snapshot returns or raises.
InstallStopped ==
    /\ in_pc \in {"stop_ok", "stop_raised"}
    /\ in_vm' = "stopped"
    /\ in_pc' = IF in_pc = "stop_ok" THEN "returned" ELSE "raised"
    /\ UNCHANGED <<in_header, in_length, in_data, in_spun, runnervars,
                   wirevars, noninstallvars>>

\* ------------------------------------------------------ handle_response
\* A str is the sequence of its characters; the literals of the code are
\* single elements.  None is [some |-> FALSE].

MaxText == 2
TextChars == {"t", "m"}
Texts == SeqsUpTo(TextChars, MaxText)

None == [some |-> FALSE, str |-> <<>>]
Some(str) == [some |-> TRUE, str |-> str]
Optional == {None} \cup {Some(str) : str \in Texts}

\* RPCResponse: error is None or a dict whose keys "type", "message" and
\* "traceback" are each there or not.
ErrorDicts ==
    [is_none : {FALSE}, type : Optional, message : Optional,
     traceback : Optional]
NoError == [is_none |-> TRUE, type |-> None, message |-> None,
            traceback |-> None]
Responses ==
    [success : BOOLEAN, result : {"none", "value"},
     error : ErrorDicts \cup {NoError}]

\* bool(response.error): None and the empty dict are false.
Truthy(error) ==
    /\ ~error.is_none
    /\ error.type.some \/ error.message.some \/ error.traceback.some

\* data.get(key, default)
GetOr(field, default) == IF field.some THEN field.str ELSE default

\* SandboxError._format_message
FormatMessageBare(original_type, message, remote_traceback) ==
    <<"[">> \o original_type \o <<"] ">> \o message

FormatMessage(original_type, message, remote_traceback) ==
    <<"[">> \o original_type \o <<"] ">> \o message
        \o (IF remote_traceback.some /\ remote_traceback.str # <<>>
            THEN <<"\n\nRemote traceback:\n">> \o remote_traceback.str
            ELSE <<>>)

\* SandboxError(original_type, message, remote_traceback), raised
SandboxError(original_type, message, remote_traceback) ==
    [raised |-> TRUE, value |-> "none", class |-> "SandboxError",
     original_type |-> original_type, message |-> message,
     remote_traceback |-> remote_traceback,
     text |-> FormatMessage(original_type, message, remote_traceback)]

\* deserialize_exception
DeserializeException(error) ==
    SandboxError(GetOr(error.type, <<"Unknown">>),
                 GetOr(error.message, <<"Unknown error">>),
                 error.traceback)

NoOutcome ==
    [raised |-> FALSE, value |-> "unset", class |-> "none",
     original_type |-> <<>>, message |-> <<>>, remote_traceback |-> None,
     text |-> <<>>]

\* SandboxStub.handle_response
StubHandleResponse(response) ==
    IF response.success
    THEN [raised |-> FALSE, value |-> response.result, class |-> "none",
          original_type |-> <<>>, message |-> <<>>,
          remote_traceback |-> None, text |-> <<>>]
    ELSE IF Truthy(response.error)
    THEN DeserializeException(response.error)
    ELSE SandboxError(<<"Unknown">>, <<"Unknown error occurred in sandbox">>,
                      None)

StubIdle ==
    /\ hr_response = [success |-> TRUE, result |-> "none", error |-> NoError]
    /\ hr_outcome = NoOutcome

\* A response has come back from pool.execute.
StubInit ==
    /\ hr_response \in Responses
    /\ hr_outcome = NoOutcome

\* return stub.handle_response(response)
HandleResponse ==
    /\ hr_outcome = NoOutcome
    /\ hr_outcome' = StubHandleResponse(hr_response)
    /\ UNCHANGED <<nonstubvars, hr_response>>

\* ------------------------------------------- the synchronous entry point
\* SandboxManager.execute, once per caller.  A caller is either plain
\* synchronous code (no running loop in its thread) or code that runs inside
\* the running event loop.  execute itself never suspends: it is one step.
\* What execute_async does is the subject of the sections above; here it is
\* its outcome, and whether it got as far as a VM.

\* What execute_async gives its caller.
AsyncOutcomes == {"value", "SandboxError", "SandboxTimeoutError",
                  "VMPoolExhaustedError", "VMStartupError"}

\* The outcomes with which pool.execute acquired a VM and sent the request.
UsesVm(outcome) ==
    outcome \in {"value", "SandboxError", "SandboxTimeoutError"}

SyncIdle ==
    /\ sync_pc = [t \in Tasks |-> "idle"]
    /\ sync_res = [t \in Tasks |-> "none"]
    /\ loop_task = [t \in Tasks |-> "none"]
    /\ vm_uses = [t \in Tasks |-> 0]

\* execute(stub, args, kwargs).  Without a running loop get_running_loop
\* raises RuntimeError and the handler calls asyncio.run, which drives
\* execute_async on a new loop.  Inside a running loop ensure_future
\* schedules a Task for execute_async, run_until_complete raises
\* RuntimeError (the loop is already running), the handler's asyncio.run
\* raises RuntimeError (called from a running loop), and that error leaves
\* execute.
SyncExecute(t, in_loop) ==
    /\ sync_pc[t] = "idle"
    /\ IF in_loop
       THEN /\ loop_task' = [loop_task EXCEPT ![t] = "scheduled"]
            /\ sync_pc' = [sync_pc EXCEPT ![t] = "raised"]
            /\ sync_res' = [sync_res EXCEPT ![t] = "RuntimeError"]
       ELSE /\ sync_pc' = [sync_pc EXCEPT ![t] = "driving"]
            /\ UNCHANGED <<sync_res, loop_task>>
    /\ UNCHANGED <<nonsyncvars, vm_uses>>

\* asyncio.run returns: execute_async has run to its end on the new loop and
\* its result or its exception is execute's.
RunComplete(t, outcome) ==
    /\ sync_pc[t] = "driving"
    /\ sync_pc' = [sync_pc EXCEPT ![t] =
                     IF outcome = "value" THEN "returned" ELSE "raised"]
    /\ sync_res' = [sync_res EXCEPT ![t] = outcome]
    /\ vm_uses' = [vm_uses EXCEPT ![t] = IF UsesVm(outcome) THEN @ + 1 ELSE @]
    /\ UNCHANGED <<nonsyncvars, loop_task>>

\* The running loop gets to the Task that execute scheduled: execute_async
\* starts and waits in get_pool or pool.execute.
TaskStart(t) ==
    /\ loop_task[t] = "scheduled"
    /\ loop_task' = [loop_task EXCEPT ![t] = "running"]
    /\ UNCHANGED <<nonsyncvars, sync_pc, sync_res, vm_uses>>

\* The Task ends; nobody awaits it.
TaskDone(t, outcome) ==
    /\ loop_task[t] = "running"
    /\ loop_task' = [loop_task EXCEPT ![t] = "done"]
    /\ vm_uses' = [vm_uses EXCEPT ![t] = IF UsesVm(outcome) THEN @ + 1 ELSE @]
    /\ UNCHANGED <<nonsyncvars, sync_pc, sync_res>>

\* The loop is stopped before it gets to the Task (asyncio.run cancels what
\* is left when its main coroutine ends).
TaskCancel(t) ==
    /\ loop_task[t] = "scheduled"
    /\ loop_task' = [loop_task EXCEPT ![t] = "cancelled"]
    /\ UNCHANGED <<nonsyncvars, sync_pc, sync_res, vm_uses>>

\* --------------------------------------------------- capability profiles
\* A string is the sequence of its characters.  In a canonical form the
\* field labels, the separator of the fields, the decimal numbers and the
\* network policy's value are single elements.

\* Mount specs and dependency specifiers per call site.
MaxMounts == 2

NoneStr == <<"n", "o", "n", "e">>

\* Code points, for str's < (what sorted compares by).
Ord(c) ==
    CASE c = "," -> 44
      [] c = "/" -> 47
      [] c = ":" -> 58
      [] c = "a" -> 97
      [] c = "e" -> 101
      [] c = "n" -> 110
      [] c = "o" -> 111
      [] c = "r" -> 114
      [] c = "w" -> 119

RECURSIVE StrLess(_, _)
StrLess(x, y) ==
    IF y = <<>> THEN FALSE
    ELSE IF x = <<>> THEN TRUE
    ELSE IF Head(x) = Head(y) THEN StrLess(Tail(x), Tail(y))
    ELSE Ord(Head(x)) < Ord(Head(y))

\* sorted(items, key=...): items are [key, val] pairs; stable, each item
\* goes behind the items whose key is not greater.
RECURSIVE InsertByKey(_, _)
InsertByKey(x, sorted) ==
    IF sorted = <<>> THEN <<x>>
    ELSE IF StrLess(x.key, Head(sorted).key) THEN <<x>> \o sorted
    ELSE <<Head(sorted)>> \o InsertByKey(x, Tail(sorted))

Unsorted(items) == items

RECURSIVE SortedByKey(_)
SortedByKey(items) ==
    IF items = <<>> THEN <<>>
    ELSE InsertByKey(items[Len(items)],
                     SortedByKey(SubSeq(items, 1, Len(items) - 1)))

\* str.join
RECURSIVE Join(_, _)
Join(strs, sep) ==
    IF strs = <<>> THEN <<>>
    ELSE IF Len(strs) = 1 THEN strs[1]
    ELSE strs[1] \o sep \o Join(Tail(strs), sep)

\* Position of the first ":" of spec (spec has one).
FirstColon(spec) ==
    CHOOSE i \in DOMAIN spec :
        spec[i] = ":" /\ \A j \in 1..(i - 1) : spec[j] # ":"

\* FSMount.parse
FSMountParse(spec) ==
    IF spec = NoneStr THEN [ok |-> TRUE, path |-> <<>>, access |-> "NONE"]
    ELSE IF ~HasColon(spec)
    THEN [ok |-> FALSE, path |-> <<>>, access |-> "ValueError"]
    ELSE LET access_str == SubSeq(spec, 1, FirstColon(spec) - 1)
             path == SubSeq(spec, FirstColon(spec) + 1, Len(spec))
         IN CASE access_str = <<"r">> ->
                   [ok |-> TRUE, path |-> path, access |-> "READ"]
              [] access_str = <<"w">> ->
                   [ok |-> TRUE, path |-> path, access |-> "WRITE"]
              [] access_str = <<"r", "w">> ->
                   [ok |-> TRUE, path |-> path, access |-> "READ_WRITE"]
              [] OTHER ->
                   [ok |-> FALSE, path |-> <<>>, access |-> "ValueError"]

\* FSMount.__str__
MountStr(m) ==
    CASE m.access = "NONE" -> NoneStr
      [] m.access = "READ" -> <<"r", ":">> \o m.path
      [] m.access = "WRITE" -> <<"w", ":">> \o m.path
      [] m.access = "READ_WRITE" -> <<"r", "w", ":">> \o m.path

\* NetworkPolicy(net), and its .value; "default" is net=None.
NetworkPolicyOf(net) ==
    CASE net = "default" -> "NONE"
      [] net = "none" -> "NONE"
      [] net = "https-only" -> "HTTPS_ONLY"
      [] net = "all" -> "ALL"
      [] OTHER -> "ValueError"

NetValue(policy) ==
    CASE policy = "NONE" -> "none"
      [] policy = "HTTPS_ONLY" -> "https-only"
      [] policy = "ALL" -> "all"

\* The fs argument as the list from_kwargs parses: None, one spec, a list.
FsSpecs(kw) == IF kw.fs_kind = "none" THEN <<>> ELSE kw.fs

\* The dependencies argument; None gives the empty tuple.
DepList(kw) == IF kw.deps_given THEN kw.dependencies ELSE <<>>

NoProfile == [ok |-> FALSE, error |-> "none"]

\* CapabilityProfile.from_kwargs, with __post_init__'s checks.
FromKwargs(kw) ==
    LET parsed == [i \in DOMAIN FsSpecs(kw) |-> FSMountParse(FsSpecs(kw)[i])]
        mounts == [i \in DOMAIN parsed |->
                     [path |-> parsed[i].path, access |-> parsed[i].access]]
        keyed == [i \in DOMAIN mounts |->
                    [key |-> MountStr(mounts[i]), val |-> mounts[i]]]
        deps == [i \in DOMAIN DepList(kw) |->
                   [key |-> DepList(kw)[i], val |-> DepList(kw)[i]]]
        sorted_mounts == SortedByKey(keyed)
        sorted_deps == SortedByKey(deps)
    IN IF \E i \in DOMAIN parsed : ~parsed[i].ok
       THEN [ok |-> FALSE, error |-> "ValueError"]
       ELSE IF NetworkPolicyOf(kw.net) = "ValueError"
       THEN [ok |-> FALSE, error |-> "ValueError"]
       ELSE IF kw.cpu_ms <= 0 \/ kw.mem_mb <= 0
       THEN [ok |-> FALSE, error |-> "ValueError"]
       ELSE [ok |-> TRUE,
             fs_mounts |-> [i \in DOMAIN sorted_mounts |->
                              sorted_mounts[i].val],
             net |-> NetworkPolicyOf(kw.net),
             cpu_ms |-> kw.cpu_ms,
             mem_mb |-> kw.mem_mb,
             dependencies |-> [i \in DOMAIN sorted_deps |->
                                 sorted_deps[i].val]]

\* x or 'none', for a str x
OrNone(x) == IF x = <<>> THEN NoneStr ELSE x

\* CapabilityProfile.canonical_repr
CanonicalRepr(profile) ==
    Join(<< <<"cpu_ms=", ToString(profile.cpu_ms)>>,
            <<"deps=">> \o OrNone(Join(profile.dependencies, <<",">>)),
            <<"fs=">>
               \o OrNone(Join([i \in DOMAIN profile.fs_mounts |->
                                  MountStr(profile.fs_mounts[i])], <<",">>)),
            <<"mem_mb=", ToString(profile.mem_mb)>>,
            <<"net=", NetValue(profile.net)>> >>,
         <<";">>)

\* ProfileHasher.hash: the first 16 hex digits of the SHA-256 digest of the
\* canonical form, kept as the digest function applied to its argument:
\* equal arguments give equal digests, and different arguments are taken to
\* give different ones.
ProfileHash(profile) == [sha256_16_of |-> CanonicalRepr(profile)]

\* ProfileHasher.from_kwargs, with the canonical form alongside.
HasherFromKwargs(kw) ==
    LET profile == FromKwargs(kw)
    IN IF profile.ok
       THEN [ok |-> TRUE, profile |-> profile,
             canonical |-> CanonicalRepr(profile),
             profile_key |-> ProfileHash(profile)]
       ELSE [ok |-> FALSE, profile |-> profile,
             canonical |-> <<>>, profile_key |-> [sha256_16_of |-> <<>>]]

\* The keyword arguments of the call sites.
MountSpecs == {NoneStr, <<"r", ":", "/", "a">>}
DepSpecs == {<<"a">>, <<"a", ",", "a">>}
NetArgs == {"default", "https-only"}
CpuArgs == {50, 1000}
MemDefault == 128

KwargsSet ==
    {kw \in [fs_kind : {"none", "str", "list"},
             fs : SeqsUpTo(MountSpecs, MaxMounts),
             net : NetArgs,
             cpu_ms : CpuArgs,
             mem_mb : {MemDefault},
             deps_given : BOOLEAN,
             dependencies : SeqsUpTo(DepSpecs, MaxDeps)] :
        /\ kw.fs_kind = "none" => kw.fs = <<>>
        /\ kw.fs_kind = "str" => Len(kw.fs) = 1
        /\ ~kw.deps_given => kw.dependencies = <<>>}

DefaultKwargs ==
    [fs_kind |-> "none", fs |-> <<>>, net |-> "default", cpu_ms |-> 1000,
     mem_mb |-> MemDefault, deps_given |-> FALSE, dependencies |-> <<>>]

ProfIdle ==
    /\ kwargs = <<DefaultKwargs, DefaultKwargs>>
    /\ profiles = <<NoProfile, NoProfile>>

\* Two call sites are decorated with their keyword arguments.
ProfInit ==
    /\ kwargs \in KwargsSet \X KwargsSet
    /\ profiles = <<NoProfile, NoProfile>>

\* The decorator: ProfileHasher.from_kwargs for each call site.
Decorate ==
    /\ profiles = <<NoProfile, NoProfile>>
    /\ profiles' = <<HasherFromKwargs(kwargs[1]), HasherFromKwargs(kwargs[2])>>
    /\ UNCHANGED <<poolvars, execvars, guest_fn, sidevars, mgrvars, kwargs>>

\* ----------------------------------------------------------- the pool lock
\* One execute() call per caller, followed statement by statement through
\* the `async with self._lock` blocks of _create_vm, _acquire_vm, _release_vm
\* and _destroy_vm.  lk_pc[t] is where the caller stands:
\*   "get"      suspended in wait_for(self._available.get())
\*   "c_enter"  _create_vm, at the first `async with self._lock`
\*   "c_count"  inside it
\*   "c_start"  suspended in runner.start_vm / restore_snapshot
\*   "c_probe"  suspended in _wait_for_vm_ready
\*   "c_enter2" _create_vm, at the second `async with self._lock`
\*   "c_reg"    inside it
\*   "a_enter"  _acquire_vm, at `async with self._lock`
\*   "a_reg"    inside it
\*   "call"     suspended in vm.client.call (connect, send, recv)
\*   "r_enter"  _release_vm, at `async with self._lock`
\*   "r_pop"    inside it
\*   "d_stop"   _destroy_vm, suspended in runner.stop_vm
\*   "d_enter"  _destroy_vm, at `async with self._lock`
\*   "d_pop"    inside it
\* asyncio.Lock.acquire does not suspend when the lock is free; a caller at
\* an "enter" position whose lock is taken waits there, holding nothing.

\* Where a caller is suspended in a driver operation, the ready probe, the
\* transport, or the wait on the available queue.
Suspended == {"get", "c_start", "c_probe", "call", "d_stop"}

\* The body of each `async with self._lock` block, by the position before it.
Inside ==
    [c_enter |-> "c_count", c_enter2 |-> "c_reg", a_enter |-> "a_reg",
     r_enter |-> "r_pop", d_enter |-> "d_pop"]

LockIdle ==
    /\ lk_owner = NoTask
    /\ lk_pc = [t \in Tasks |-> "idle"]
    /\ lk_vm = [t \in Tasks |-> NoVM]
    /\ lk_why = [t \in Tasks |-> "none"]
    /\ lk_counter = CidBase
    /\ lk_all = {}
    /\ lk_in_use = {}
    /\ lk_queue = <<>>

\* execute -> acquire() -> _acquire_vm: the wait on the available queue.
LkExecute(t) ==
    /\ lk_pc[t] = "idle"
    /\ lk_pc' = [lk_pc EXCEPT ![t] = "get"]
    /\ UNCHANGED <<lk_owner, lk_vm, lk_why, lk_counter, lk_all, lk_in_use,
                   lk_queue, nonlockvars>>

\* _acquire_vm: the queue gives its head.
LkGet(t) ==
    /\ lk_pc[t] = "get"
    /\ lk_queue # <<>>
    /\ lk_vm' = [lk_vm EXCEPT ![t] = Head(lk_queue)]
    /\ lk_queue' = Tail(lk_queue)
    /\ lk_pc' = [lk_pc EXCEPT ![t] = "a_enter"]
    /\ UNCHANGED <<lk_owner, lk_why, lk_counter, lk_all, lk_in_use,
                   nonlockvars>>

\* _acquire_vm: the wait times out; below max_size it calls _create_vm,
\* otherwise it raises VMPoolExhaustedError.
LkGetTimeout(t) ==
    /\ lk_pc[t] = "get"
    /\ lk_queue = <<>>
    /\ IF Cardinality(lk_all) < max_size
       THEN /\ lk_pc' = [lk_pc EXCEPT ![t] = "c_enter"]
            /\ lk_why' = [lk_why EXCEPT ![t] = "acquire"]
       ELSE /\ lk_pc' = [lk_pc EXCEPT ![t] = "idle"]
            /\ lk_why' = lk_why
    /\ UNCHANGED <<lk_owner, lk_vm, lk_counter, lk_all, lk_in_use, lk_queue,
                   nonlockvars>>

\* `async with self._lock`: __aenter__ takes the free lock.
LkLock(t) ==
    /\ lk_pc[t] \in DOMAIN Inside
    /\ lk_owner = NoTask
    /\ lk_pc[t] = "c_enter" => lk_counter < CidBase + MaxVMs
    /\ lk_owner' = t
    /\ lk_pc' = [lk_pc EXCEPT ![t] = Inside[lk_pc[t]]]
    /\ UNCHANGED <<lk_vm, lk_why, lk_counter, lk_all, lk_in_use, lk_queue,
                   nonlockvars>>

\* _create_vm: self._cid_counter += 1; cid = self._cid_counter; the block
\* ends (the lock is released) and start_vm or restore_snapshot is awaited.
LkCount(t) ==
    /\ lk_pc[t] = "c_count"
    /\ lk_counter' = NextCid(lk_counter)
    /\ lk_vm' = [lk_vm EXCEPT ![t] = lk_counter']
    /\ lk_owner' = NoTask
    /\ lk_pc' = [lk_pc EXCEPT ![t] = "c_start"]
    /\ UNCHANGED <<lk_why, lk_all, lk_in_use, lk_queue, nonlockvars>>

\* _create_vm: the driver returned the process; _wait_for_vm_ready begins.
LkStarted(t) ==
    /\ lk_pc[t] = "c_start"
    /\ lk_pc' = [lk_pc EXCEPT ![t] = "c_probe"]
    /\ UNCHANGED <<lk_owner, lk_vm, lk_why, lk_counter, lk_all, lk_in_use,
                   lk_queue, nonlockvars>>

\* _create_vm: the guest answered the probe.
LkProbeOk(t) ==
    /\ lk_pc[t] = "c_probe"
    /\ lk_pc' = [lk_pc EXCEPT ![t] = "c_enter2"]
    /\ UNCHANGED <<lk_owner, lk_vm, lk_why, lk_counter, lk_all, lk_in_use,
                   lk_queue, nonlockvars>>

\* _create_vm raises VMStartupError (the driver or the probe failed): out
\* of execute for an acquire, logged by _release_vm for a replacement.
LkCreateRaise(t) ==
    /\ lk_pc[t] \in {"c_start", "c_probe"}
    /\ lk_pc' = [lk_pc EXCEPT ![t] = "idle"]
    /\ lk_vm' = [lk_vm EXCEPT ![t] = NoVM]
    /\ lk_why' = [lk_why EXCEPT ![t] = "none"]
    /\ UNCHANGED <<lk_owner, lk_counter, lk_all, lk_in_use, lk_queue,
                   nonlockvars>>

\* _create_vm: self._all_vms[vm_id] = vm; the block ends and the VM is
\* returned, to _acquire_vm or to _release_vm, which puts it on the queue.
LkRegister(t) ==
    /\ lk_pc[t] = "c_reg"
    /\ lk_all' = lk_all \cup {lk_vm[t]}
    /\ lk_owner' = NoTask
    /\ IF lk_why[t] = "acquire"
       THEN /\ lk_pc' = [lk_pc EXCEPT ![t] = "a_enter"]
            /\ UNCHANGED <<lk_vm, lk_queue>>
       ELSE /\ lk_queue' = Append(lk_queue, lk_vm[t])
            /\ lk_vm' = [lk_vm EXCEPT ![t] = NoVM]
            /\ lk_pc' = [lk_pc EXCEPT ![t] = "idle"]
    /\ lk_why' = [lk_why EXCEPT ![t] = "none"]
    /\ UNCHANGED <<lk_counter, lk_in_use, nonlockvars>>

\* _acquire_vm: self._in_use[vm.vm_id] = vm; the block ends, acquire()
\* yields the VM and execute awaits the call.
LkInUse(t) ==
    /\ lk_pc[t] = "a_reg"
    /\ lk_in_use' = lk_in_use \cup {lk_vm[t]}
    /\ lk_owner' = NoTask
    /\ lk_pc' = [lk_pc EXCEPT ![t] = "call"]
    /\ UNCHANGED <<lk_vm, lk_why, lk_counter, lk_all, lk_queue, nonlockvars>>

\* execute: the call returns or raises; acquire()'s finally calls
\* _release_vm.
LkCallEnd(t) ==
    /\ lk_pc[t] = "call"
    /\ lk_pc' = [lk_pc EXCEPT ![t] = "r_enter"]
    /\ UNCHANGED <<lk_owner, lk_vm, lk_why, lk_counter, lk_all, lk_in_use,
                   lk_queue, nonlockvars>>

\* _release_vm: self._in_use.pop(vm.vm_id, None); the block ends; then
\* mark_used and _should_recycle (recycle is its answer): _destroy_vm closes
\* the client and awaits runner.stop_vm, or the VM is put on the queue.
LkPopLocked(t, recycle) ==
    /\ lk_pc[t] = "r_pop"
    /\ lk_in_use' = lk_in_use \ {lk_vm[t]}
    /\ IF recycle
       THEN /\ lk_pc' = [lk_pc EXCEPT ![t] = "d_stop"]
            /\ UNCHANGED <<lk_owner, lk_vm, lk_queue>>
       ELSE /\ lk_queue' = Append(lk_queue, lk_vm[t])
            /\ lk_vm' = [lk_vm EXCEPT ![t] = NoVM]
            /\ lk_pc' = [lk_pc EXCEPT ![t] = "idle"]
            /\ lk_owner' = NoTask
    /\ UNCHANGED <<lk_why, lk_counter, lk_all, nonlockvars>>

LkPop(t, recycle) ==
    /\ lk_pc[t] = "r_pop"
    /\ lk_in_use' = lk_in_use \ {lk_vm[t]}
    /\ lk_owner' = NoTask
    /\ IF recycle
       THEN /\ lk_pc' = [lk_pc EXCEPT ![t] = "d_stop"]
            /\ UNCHANGED <<lk_vm, lk_queue>>
       ELSE /\ lk_queue' = Append(lk_queue, lk_vm[t])
            /\ lk_vm' = [lk_vm EXCEPT ![t] = NoVM]
            /\ lk_pc' = [lk_pc EXCEPT ![t] = "idle"]
    /\ UNCHANGED <<lk_why, lk_counter, lk_all, nonlockvars>>

\* _destroy_vm: runner.stop_vm returned.
LkStopped(t) ==
    /\ lk_pc[t] = "d_stop"
    /\ lk_pc' = [lk_pc EXCEPT ![t] = "d_enter"]
    /\ UNCHANGED <<lk_owner, lk_vm, lk_why, lk_counter, lk_all, lk_in_use,
                   lk_queue, nonlockvars>>

\* _destroy_vm: both pops; the block ends.  Back in _release_vm: below
\* min_size it calls _create_vm for a replacement.
LkDestroyPop(t) ==
    /\ lk_pc[t] = "d_pop"
    /\ lk_all' = lk_all \ {lk_vm[t]}
    /\ lk_in_use' = lk_in_use \ {lk_vm[t]}
    /\ lk_owner' = NoTask
    /\ lk_vm' = [lk_vm EXCEPT ![t] = NoVM]
    /\ IF Cardinality(lk_all') < min_size
       THEN /\ lk_pc' = [lk_pc EXCEPT ![t] = "c_enter"]
            /\ lk_why' = [lk_why EXCEPT ![t] = "replace"]
       ELSE /\ lk_pc' = [lk_pc EXCEPT ![t] = "idle"]
            /\ lk_why' = lk_why
    /\ UNCHANGED <<lk_counter, lk_queue, nonlockvars>>

\* ------------------------------------------------------- specifications

\* Nothing has happened in the runner, on the connection, in the stub and
\* at the synchronous entry point.
SideIdle ==
    /\ RunnerIdle
    /\ WireIdle
    /\ StubIdle
    /\ SyncIdle
    /\ LockIdle
    /\ InstallIdle

\* The worker pool under every configuration, with a sandboxed function
\* that returns.
Init ==
    PoolInit /\ ExecIdle /\ guest_fn = "return" /\ MgrIdle /\ ProfIdle /\ SideIdle

Next ==
    \/ \E ok \in SUBSET VMs : Start(ok)
    \/ \E t \in Tasks :
         \/ Execute(t)
         \/ AcquireGet(t)
         \/ AcquireRegister(t)
         \/ AcquireTimeout(t)
         \/ CreateOk(t)
         \/ CreateFail(t)
         \/ CallReturn(t)
         \/ CallTimeout(t)
         \/ CallError(t)
         \/ CallCancel(t)
         \/ ReleaseDestroyEnd(t)
         \/ ReplaceOk(t)
         \/ ReplaceFail(t)
    \/ MaintWake
    \/ MaintDestroyEnd
    \/ Tick
    \/ StopBegin
    \/ StopDrain
    \/ StopInUse

Spec == Init /\ [][Next]_vars

\* The worker pool with a driver whose stop_vm can raise while a release
\* destroys the VM it recycles, and with VMs that start and never answer the
\* ready probe.
FaultNext ==
    \/ \E ok \in SUBSET VMs : Start(ok)
    \/ \E t \in Tasks :
         \/ Execute(t)
         \/ AcquireGet(t)
         \/ AcquireRegister(t)
         \/ AcquireTimeout(t)
         \/ CreateOk(t)
         \/ CreateFail(t)
         \/ CreateUnready(t)
         \/ CallReturn(t)
         \/ CallTimeout(t)
         \/ CallError(t)
         \/ CallCancel(t)
         \/ ReleaseDestroyEnd(t)
         \/ ReleaseDestroyRaise(t)
         \/ ReplaceOk(t)
         \/ ReplaceFail(t)
         \/ ReplaceUnready(t)
    \/ MaintWake
    \/ MaintDestroyEnd
    \/ Tick
    \/ StopBegin
    \/ StopDrain
    \/ StopInUse

\* A pool of one to two VMs, two calls per VM.
FaultInit ==
    /\ min_size = 1
    /\ max_size = 2
    /\ max_calls_per_vm = 2
    /\ PoolIdle
    /\ ExecIdle
    /\ guest_fn = "return"
    /\ MgrIdle
    /\ SideIdle
    /\ ProfIdle

FaultSpec == FaultInit /\ [][FaultNext]_vars

\* A provisioning whose guest answers the install request, or part of an
\* answer, and closes its end; every wait of the driver ends.
InstallNext ==
    \/ \E connected \in BOOLEAN : InstallBegin(connected)
    \/ \E payload \in Payloads : Send(payload)
    \/ \E drop \in 0..(MaxMsgs * (HEADER_SIZE + MaxPayload)) : Close(drop)
    \/ \E n \in 1..HEADER_SIZE : InstallRecvChunk(n)
    \/ InstallRecvEmpty
    \/ \E ok \in BOOLEAN : SnapshotTaken(ok)
    \/ InstallStopped

InstallSpec ==
    /\ FaultInit
    /\ [][InstallNext]_vars
    /\ WF_vars(\E n \in 1..HEADER_SIZE : InstallRecvChunk(n))
    /\ WF_vars(InstallRecvEmpty)
    /\ WF_vars(\E ok \in BOOLEAN : SnapshotTaken(ok))
    /\ WF_vars(InstallStopped)

\* What a caller's execute does once it is entered: every wait in it ends,
\* the wait on the queue and the wait for the response by their timeouts,
\* the driver's operations and the ready probe by assumption.
TaskStep(t) ==
    \/ AcquireGet(t)
    \/ AcquireRegister(t)
    \/ AcquireTimeout(t)
    \/ CreateOk(t)
    \/ CreateFail(t)
    \/ CallReturn(t)
    \/ CallTimeout(t)
    \/ CallError(t)
    \/ CallCancel(t)
    \/ ReleaseDestroyEnd(t)
    \/ ReplaceOk(t)
    \/ ReplaceFail(t)

\* The worker pool of one to two VMs, one call per VM, in which no caller
\* waits for ever; maintenance and stop may run or not.
LiveInit ==
    /\ min_size = 1
    /\ max_size = 2
    /\ max_calls_per_vm = 1
    /\ PoolIdle
    /\ ExecIdle
    /\ guest_fn = "return"
    /\ MgrIdle
    /\ SideIdle
    /\ ProfIdle

LiveSpec ==
    LiveInit /\ [][Next]_vars /\ \A t \in Tasks : WF_vars(TaskStep(t))

\* Concurrent execute calls on a pool of one to two VMs, followed through
\* the pool lock.
LockNext ==
    \E t \in Tasks :
        \/ LkExecute(t)
        \/ LkGet(t)
        \/ LkGetTimeout(t)
        \/ LkLock(t)
        \/ LkCount(t)
        \/ LkStarted(t)
        \/ LkProbeOk(t)
        \/ LkCreateRaise(t)
        \/ LkRegister(t)
        \/ LkInUse(t)
        \/ LkCallEnd(t)
        \/ \E recycle \in BOOLEAN : LkPop(t, recycle)
        \/ LkStopped(t)
        \/ LkDestroyPop(t)

LockSpec == FaultInit /\ [][LockNext]_vars

ExecSpecInit ==
    /\ min_size = 1
    /\ max_size = 1
    /\ max_calls_per_vm = 1
    /\ PoolIdle
    /\ ExecInit
    /\ guest_fn = "return"
    /\ MgrIdle
    /\ SideIdle
    /\ ProfIdle

ExecNext ==
    \/ \E out \in FnOutcomes \cup InstallOutcomes : ExecHandle(out)
    \/ \E r \in ExecRequests : ExecRecv(r)

ExecSpec == ExecSpecInit /\ [][ExecNext]_vars

\* The worker pool of one VM (two calls per VM) with a sandboxed function
\* that returns, raises, or runs into the guest's timer.
GuestOutcomes == {"return", "raise", "timeout"}

GuestSpecInit ==
    /\ min_size = 1
    /\ max_size = 1
    /\ max_calls_per_vm = 2
    /\ PoolIdle
    /\ ExecIdle
    /\ guest_fn \in GuestOutcomes
    /\ MgrIdle
    /\ SideIdle
    /\ ProfIdle

GuestSpec == GuestSpecInit /\ [][Next]_vars

\* The pool manager: concurrent execute_async calls for the keys, and
\* shutdown.
MgrInit ==
    /\ min_size = 1
    /\ max_size = 1
    /\ max_calls_per_vm = 1
    /\ PoolIdle
    /\ ExecIdle
    /\ guest_fn = "return"
    /\ MgrIdle
    /\ SideIdle
    /\ ProfIdle

MgrNext ==
    \/ \E t \in Tasks :
         \/ \E k \in Keys : ExecuteAsync(t, k)
         \/ GetPoolResume(t)
         \/ \E ok \in BOOLEAN : \E p \in Guests \cup {NoGuest} :
              \/ PoolStartDone(t, ok, p)
              \/ PoolExecute(t, ok, p)
         \/ PoolStartRaise(t)
    \/ SdBegin
    \/ SdResume
    \/ \E k \in Keys : SdStopPool(k)
    \/ SdClear

MgrSpec == MgrInit /\ [][MgrNext]_vars

\* The pool manager with the runner's snapshots: pool.start() asks the
\* runner for the snapshot of a profile with dependencies before it creates
\* the initial VMs.
SnapInit == MgrInit

SnapNext ==
    \/ \E t \in Tasks :
         \/ \E k \in Keys : ExecuteAsync(t, k)
         \/ GetPoolResume(t)
         \/ StartProvision(t)
         \/ ProvisionDone(t)
         \/ ProvisionRaise(t)
         \/ \E ok \in BOOLEAN : \E p \in Guests \cup {NoGuest} :
              \/ StartCreate(t, ok, p)
              \/ PoolExecute(t, ok, p)
    \/ SdBegin
    \/ SdResume
    \/ \E k \in Keys : SdStopPool(k)
    \/ SdClear

SnapSpec == SnapInit /\ [][SnapNext]_vars

\* A connection whose writing end uses send, read by recv.
WireNext ==
    \/ \E payload \in Payloads : Send(payload)
    \/ \E drop \in 0..(MaxMsgs * (HEADER_SIZE + MaxPayload)) : Close(drop)
    \/ RecvBegin
    \/ \E n \in 1..HEADER_SIZE : RecvChunk(n)
    \/ RecvEof

WireSpec == MgrInit /\ [][WireNext]_vars

\* A connection whose writing end writes what it likes: a header and up to
\* MaxPayload bytes.
RawNext ==
    \/ \E bytes \in SeqsUpTo(RawBytes, HEADER_SIZE + MaxPayload) :
         WriteRaw(bytes)
    \/ \E drop \in {0} : Close(drop)
    \/ RecvBegin
    \/ \E n \in 1..HEADER_SIZE : RecvChunk(n)
    \/ RecvEof

RawWireSpec == MgrInit /\ [][RawNext]_vars

\* The stub's handle_response on every response.
StubSpecInit ==
    /\ min_size = 1
    /\ max_size = 1
    /\ max_calls_per_vm = 1
    /\ PoolIdle
    /\ ExecIdle
    /\ guest_fn = "return"
    /\ MgrIdle
    /\ ProfIdle
    /\ RunnerIdle
    /\ WireIdle
    /\ SyncIdle
    /\ LockIdle
    /\ InstallIdle
    /\ StubInit

StubSpec == StubSpecInit /\ [][HandleResponse]_vars

\* The synchronous entry point, called by plain code and from inside the
\* running loop.
SyncNext ==
    \E t \in Tasks :
       \/ \E in_loop \in BOOLEAN : SyncExecute(t, in_loop)
       \/ \E outcome \in AsyncOutcomes :
            \/ RunComplete(t, outcome)
            \/ TaskDone(t, outcome)
       \/ TaskStart(t)
       \/ TaskCancel(t)

SyncSpec == MgrInit /\ [][SyncNext]_vars

\* Capability profiles: two call sites with arbitrary keyword arguments.
ProfSpecInit ==
    /\ min_size = 1
    /\ max_size = 1
    /\ max_calls_per_vm = 1
    /\ PoolIdle
    /\ ExecIdle
    /\ guest_fn = "return"
    /\ MgrIdle
    /\ SideIdle
    /\ ProfInit

ProfSpec == ProfSpecInit /\ [][Decorate]_vars

\* The worker pool with room for every VM of the run: one warm VM is kept,
\* up to MaxVMs exist at once.
WidePoolInit ==
    /\ min_size = 1
    /\ max_size = MaxVMs
    /\ max_calls_per_vm = MaxCallCap
    /\ PoolIdle
    /\ ExecIdle
    /\ guest_fn = "return"
    /\ MgrIdle
    /\ SideIdle
    /\ ProfIdle

WidePoolSpec == WidePoolInit /\ [][Next]_vars

\* Warm reuse: a pool with min_size = 1 whose VM creations succeed, used by
\* callers one after another (every call finishes before the next starts,
\* no call times out, fails or is cancelled), with the maintenance loop
\* running and no stop().  Up to MaxRequests calls fit under the largest cap.
WarmInit ==
    /\ min_size = 1
    /\ max_size \in 1..MaxPoolSize
    /\ max_calls_per_vm \in 1..(MaxRequests + 1)
    /\ PoolIdle
    /\ ExecIdle
    /\ guest_fn = "return"
    /\ MgrIdle
    /\ SideIdle
    /\ ProfIdle

WarmNext ==
    \/ Start((CidBase + 1)..(CidBase + min_size))
    \/ \E t \in Tasks :
         \/ SeqExecute(t)
         \/ AcquireGet(t)
         \/ AcquireRegister(t)
         \/ CallReturn(t)
         \/ ReleaseDestroyEnd(t)
         \/ ReplaceOk(t)
    \/ MaintWake
    \/ Tick

WarmSpec == WarmInit /\ [][WarmNext]_vars

\* ---------------------------------------------------------------- claims

\* No acquire, release, VM creation, VM destruction, maintenance pass or
\* stop is in progress.  A call that waits for its response holds its VM in
\* in_use and runs no pool operation.
Quiescent ==
    /\ started
    /\ \A t \in Tasks : pc[t] \in {"idle", "calling"}
    /\ mpc \in {"sleep", "done"}
    /\ spc \in {"idle", "done"}

\* C1: at every quiescent moment |all| = |available| + |in_use|.
C1_SizeInvariant ==
    Quiescent => Cardinality(all_vms) = Len(available) + Len(in_use)

\* C2: |all| never exceeds max_size.
C2_MaxSize == Cardinality(all_vms) <= max_size

\* C3: with no creation failure and no shutdown, every quiescent moment has
\* |all| >= min_size.
C3_MinSize ==
    (Quiescent /\ ~create_failed /\ ~shutdown)
        => Cardinality(all_vms) >= min_size

\* A caller holds the VM its acquire took: from the dequeue (or the inline
\* creation) until its release has given the VM back or started to destroy it.
Holds(t, v) == pc[t] \in {"dequeued", "calling"} /\ tvm[t] = v

\* C4: a VM is never in the available queue while it is in in_use, the queue
\* never holds a VM twice or a VM some caller holds, and at most one caller
\* holds a given VM.
C4_ExclusiveOwnership ==
    /\ Range(available) \cap Range(in_use) = {}
    /\ \A i, j \in DOMAIN available : i # j => available[i] # available[j]
    /\ \A t \in Tasks : \A v \in VMs :
         Holds(t, v) => /\ v \notin Range(available)
                        /\ \A u \in Tasks \ {t} : ~Holds(u, v)

\* C4 witness: two callers hold two different VMs at once, one of them a VM
\* that was released before and acquired again.
C4_Witness ==
    \E t, u \in Tasks :
        /\ t # u
        /\ pc[t] = "calling" /\ pc[u] = "calling"
        /\ call_count[tvm[t]] >= 1
        /\ Range(in_use) = {tvm[t], tvm[u]}

\* A tainted VM is in the hands of the release that destroys it, or gone.
TaintedNeverReused ==
    \A v \in VMs : tainted[v] =>
        /\ v \notin Range(available)
        /\ \A t \in Tasks : ~Holds(t, v)
        /\ v \in all_vms => \E t \in Tasks : pc[t] = "rel_destroy" /\ tvm[t] = v

\* The step in which a call ends with a host timeout or an error leaves the
\* VM tainted; the step that ends the release's destruction of a VM leaves
\* it out of all.
TaintedOnFailure ==
    \A t \in Tasks :
        /\ (pc[t] = "calling" /\ res'[t].kind \in {"timeout", "error"})
               => tainted'[tvm[t]]
        /\ (pc[t] = "rel_destroy" /\ pc'[t] # "rel_destroy")
               => tvm[t] \notin all_vms'

C6_CallCountCap ==
    \A v \in Range(available) : call_count[v] <= max_calls_per_vm

\* C6 witness: a VM that has served a call is back in the available queue
\* and another VM has been destroyed on reaching the cap.
C6_Witness ==
    /\ \E v \in Range(available) : call_count[v] >= 1
    /\ \E v \in VMs : /\ call_count[v] = max_calls_per_vm
                      /\ ~tainted[v]
                      /\ vmst[v] = "stopped"

\* C7: once stop() has returned and the calls in flight then have finished
\* (none was started after stop returned), the pool holds no VM and every VM
\* it created has been stopped.
C7_StopLeavesNothing ==
    (spc = "done" /\ \A t \in Tasks : pc[t] = "idle" /\ ~late[t])
        => /\ all_vms = {}
           /\ available = <<>>
           /\ in_use = <<>>
           /\ \A v \in VMs : vmst[v] \in {"none", "failed", "stopped"}

\* C8: a call made after the pool has been shut down (after stop returned)
\* fails with a pool-closed error and neither creates a VM nor is handed one.
C8_ClosedAfterShutdown ==
    \A t \in Tasks : late[t] =>
        /\ pc[t] \in {"idle", "waiting"}
        /\ pc[t] = "idle" => res[t].kind = "closed"

\* C9: every response execute returns carries the request_id of the request
\* the caller sent.
C9_ResponseMatchesRequest ==
    \A t \in Tasks : res[t].kind = "response" => res[t].rid = req[t]

\* C10: every response of the guest executor to a request that carries a
\* request_id echoes it: function call and install, success and failure.
C10_EchoesRequestId ==
    (ex_out # "none" /\ ex_sent /\ ex_req.has_id)
        => ex_resp.request_id = ex_req.request_id

\* C10 witness: a failed install of a request with a request_id has been
\* answered.
C10_Witness ==
    /\ ex_out = "nonzero"
    /\ ex_req.command = "install"
    /\ ex_req.has_id
    /\ ex_sent
    /\ ~ex_resp.success
    /\ ex_resp.request_id = ex_req.request_id

\* C11: when a call is cancelled while its request is in flight, the VM is
\* marked tainted as the cancellation propagates and is not put back in the
\* available queue (it goes to its destruction).
C11_CancelTaints ==
    [][\A t \in Tasks :
          (pc[t] = "calling" /\ res'[t].kind = "cancelled")
              => /\ tainted'[tvm[t]]
                 /\ tvm[t] \notin Range(available')]_vars

\* C12: when the guest's timer fires and the guest answers with a failure
\* envelope of type TimeoutError, the caller gets a sandbox error whose
\* remote type is TimeoutError, and the VM that served the call is tainted
\* and goes to its destruction instead of back in the available queue.
C12_GuestTimeout ==
    [][\A t \in Tasks :
          (/\ pc[t] = "calling"
           /\ res'[t].kind = "response"
           /\ res'[t].error = "TimeoutError")
              => /\ CallerSees(res'[t]).class
                        \in {"SandboxError", "SandboxTimeoutError"}
                 /\ CallerSees(res'[t]).original_type = "TimeoutError"
                 /\ tainted'[tvm[t]]
                 /\ tvm[t] \notin Range(available')]_vars

\* A pool object that has been constructed and not yet stopped or dropped.
PoolLive(i) == pool_st[i] \in {"starting", "started"}

\* The directory holds a pool object under its own key only, and a pool is
\* under construction only for a key the directory does not hold; no two
\* live pool objects have the same key; two callers that hold live pools for
\* the same key hold the same object.
OnePoolPerKey ==
    /\ \A k \in Keys : pools[k] # NoPool =>
          /\ pool_key[pools[k]] = k
          /\ pool_st[pools[k]] \in {"started", "stopped"}
    /\ \A i \in PoolIds : pool_st[i] = "starting" => pools[pool_key[i]] = NoPool
    /\ \A i, j \in PoolIds :
          (PoolLive(i) /\ PoolLive(j) /\ pool_key[i] = pool_key[j]) => i = j
    /\ \A t, u \in Tasks :
          (/\ gpc[t] = "have_pool" /\ gpc[u] = "have_pool"
           /\ gkey[t] = gkey[u]
           /\ PoolLive(gpool[t]) /\ PoolLive(gpool[u])) => gpool[t] = gpool[u]

\* A directory entry is never replaced by another pool object: it changes
\* only to and from "absent".  A pool object is constructed only for a key
\* that is absent, and a get_pool that returns gives the directory's entry.
DirectoryStable ==
    /\ \A k \in Keys :
          (pools[k] # NoPool /\ pools'[k] # NoPool) => pools'[k] = pools[k]
    /\ \A i \in PoolIds :
          (pool_st[i] = "none" /\ pool_st'[i] = "starting")
              => pools[pool_key'[i]] = NoPool
    /\ \A t \in Tasks :
          (gpc[t] # "have_pool" /\ gpc'[t] = "have_pool")
              => /\ gpool'[t] # NoPool
                 /\ gpool'[t] = pools'[gkey'[t]]

\* C13: under any interleaving of get_pool calls (and shutdown) the manager
\* holds at most one pool per profile_key, a pool is constructed and
\* started at most once per key while the key is in the directory, and all
\* callers with the same key get the same pool object.
C13_OnePoolPerKey == []OnePoolPerKey /\ [][DirectoryStable]_vars

\* C13 witness: both callers have got the same started pool for the same
\* key while a shutdown that queued for the lock behind a get_pool has just
\* been handed it.
C13_Witness ==
    /\ gpc[1] = "have_pool" /\ gpc[2] = "have_pool"
    /\ gkey[1] = gkey[2]
    /\ gpool[1] = gpool[2]
    /\ pool_st[gpool[1]] = "started"
    /\ sdpc = "lock_wait"
    /\ mgr_lock = Shutdowner

HeldBack == {mlist[i].vm : i \in DOMAIN mlist}

\* C15: VMs are handed out in the order in which they were put in the
\* available queue: an acquire takes the head of the queue, and a VM that a
\* maintenance pass gives back is never placed behind a VM that was put in
\* the queue after it (a release during the pass).
C15_FifoOrder ==
    [][/\ \A t \in Tasks :
            (pc[t] = "waiting" /\ pc'[t] = "dequeued")
                => tvm'[t] = Head(available)
       /\ \A i, j \in DOMAIN available' :
            (/\ available'[i] \in Range(available)
             /\ available'[j] \in HeldBack) => j < i]_vars

\* C16: an acquire fails with VMPoolExhaustedError only out of its wait on
\* the empty queue with |all| >= max_size at that moment; a wait that ends
\* with |all| < max_size without a VM goes on to create one; and whenever
\* acquire returns a VM, dequeued or created, the VM is in in_use (a created
\* one also in all).
C16_AcquireOutcome ==
    [][\A t \in Tasks :
          /\ (res[t].kind # "exhausted" /\ res'[t].kind = "exhausted")
                => /\ pc[t] = "waiting"
                   /\ available = <<>>
                   /\ Cardinality(all_vms) >= max_size
                   /\ tvm'[t] = NoVM
          /\ (/\ pc[t] = "waiting"
              /\ pc'[t] \notin {"waiting", "dequeued"}
              /\ Cardinality(all_vms) < max_size)
                => /\ pc'[t] = "creating"
                   /\ available = <<>>
                   /\ vmst[tvm'[t]] = "none"
          /\ (pc[t] = "creating" /\ pc'[t] = "calling")
                => /\ tvm'[t] = tvm[t]
                   /\ tvm[t] \in all_vms'
          /\ (pc[t] # "calling" /\ pc'[t] = "calling")
                => tvm'[t] \in Range(in_use')]_vars

\* C16 witness: one caller has been refused with VMPoolExhaustedError while
\* the other holds, registered in in_use, a VM it created inline.
C16_Witness ==
    \E t, u \in Tasks :
        /\ res[t].kind = "exhausted" /\ pc[t] = "idle"
        /\ pc[u] = "calling"
        /\ tvm[u] > CidBase + min_size
        /\ call_count[tvm[u]] = 0
        /\ tvm[u] \in Range(in_use)
        /\ tvm[u] \in all_vms

\* C17: a VM released with call_count >= max_calls_per_vm is destroyed: it
\* leaves all and in_use; with |all| < min_size after that, a replacement is
\* created and put in the available queue; and once the release completes
\* |all| is within [min_size, max_size] (no VM was tainted, no creation
\* failed, the pool is not being shut down).
C17_RecycleAtCap ==
    [][(\A v \in VMs : ~tainted'[v]) =>
        \A t \in Tasks :
          /\ (/\ pc[t] = "calling" /\ pc'[t] # "calling"
              /\ call_count'[tvm[t]] >= max_calls_per_vm)
                => /\ pc'[t] = "rel_destroy"
                   /\ tvm[t] \notin Range(available')
          /\ (pc[t] = "rel_destroy" /\ pc'[t] # "rel_destroy")
                => /\ tvm[t] \notin all_vms'
                   /\ tvm[t] \notin Range(in_use')
                   /\ Cardinality(all_vms') < min_size
                         => pc'[t] = "rel_create"
          /\ (pc[t] = "rel_create" /\ pc'[t] = "idle" /\ ~create_failed')
                => /\ tvm[t] \in all_vms'
                   /\ tvm[t] \in Range(available')
          /\ (/\ pc[t] \in {"rel_destroy", "rel_create"} /\ pc'[t] = "idle"
              /\ ~create_failed' /\ ~shutdown')
                => /\ Cardinality(all_vms') >= min_size
                   /\ Cardinality(all_vms') <= max_size]_vars

\* Calls that have finished: every call that was started and is not in
\* progress.
CallsDone == next_rid - Cardinality({t \in Tasks : pc[t] # "idle"})

\* C18: on a pool with min_size = 1, while the calls made one after another
\* number fewer than max_calls_per_vm and none failed: exactly one VM
\* exists, the one start created; it serves every call (a waiting caller
\* always finds it in the queue, no maintenance pass takes it away) and its
\* call_count is the number of calls finished.
C18_WarmReuse ==
    (started /\ next_rid < max_calls_per_vm) =>
        /\ all_vms = {CidBase + 1}
        /\ vmst[CidBase + 1] = "ready"
        /\ call_count[CidBase + 1] = CallsDone
        /\ mpc = "sleep"
        /\ \A t \in Tasks :
             /\ pc[t] \in {"idle", "waiting", "dequeued", "calling"}
             /\ pc[t] = "waiting" => available = <<CidBase + 1>>
             /\ pc[t] \in {"dequeued", "calling"} => tvm[t] = CidBase + 1
             /\ res[t].kind \in {"none", "response"}

\* C18 witness: MaxRequests calls, made by both callers in turn, have all
\* been served by the one VM, which has since sat idle through a
\* maintenance interval.
C18_Witness ==
    /\ next_rid = MaxRequests
    /\ max_calls_per_vm > MaxRequests
    /\ call_count[CidBase + 1] = MaxRequests
    /\ all_vms = {CidBase + 1}
    /\ res[1].kind = "response" /\ res[2].kind = "response"
    /\ idle[CidBase + 1]
    /\ available = <<CidBase + 1>>

\* The isolation-relevant fields of a profile.
IsolationFields(profile) ==
    <<profile.fs_mounts, profile.net, profile.cpu_ms, profile.mem_mb,
      profile.dependencies>>

\* C19: two profiles that differ in a field that matters for isolation
\* (mounts, network policy, cpu_ms, mem_mb, dependency list) have different
\* canonical forms, hence different pool keys.
C19_CanonicalInjective ==
    (/\ profiles[1].ok /\ profiles[2].ok
     /\ IsolationFields(profiles[1].profile)
            # IsolationFields(profiles[2].profile))
        => /\ profiles[1].canonical # profiles[2].canonical
           /\ profiles[1].profile_key # profiles[2].profile_key

\* s and t hold the same elements the same number of times.
IsPermutation(s, t) ==
    /\ Len(s) = Len(t)
    /\ \A x \in Range(s) \cup Range(t) :
          Cardinality({i \in DOMAIN s : s[i] = x})
              = Cardinality({i \in DOMAIN t : t[i] = x})

\* C20: building profiles from any permutation of the same mount specs and
\* any permutation of the same dependency list, the other options equal,
\* gives the same profile, the same canonical form and the same fingerprint.
C20_OrderInsensitive ==
    (/\ profiles[1].ok /\ profiles[2].ok
     /\ IsPermutation(FsSpecs(kwargs[1]), FsSpecs(kwargs[2]))
     /\ IsPermutation(DepList(kwargs[1]), DepList(kwargs[2]))
     /\ kwargs[1].net = kwargs[2].net
     /\ kwargs[1].cpu_ms = kwargs[2].cpu_ms
     /\ kwargs[1].mem_mb = kwargs[2].mem_mb)
        => /\ profiles[1].profile = profiles[2].profile
           /\ profiles[1].canonical = profiles[2].canonical
           /\ profiles[1].profile_key = profiles[2].profile_key

\* C20 witness: two call sites give the same two mount specs and the same two
\* dependencies in opposite orders, and both profiles have been built, with
\* the mounts and the dependencies in sorted order.
C20_Witness ==
    /\ profiles[1].ok /\ profiles[2].ok
    /\ Len(kwargs[1].fs) = MaxMounts
    /\ kwargs[1].fs[1] # kwargs[1].fs[2]
    /\ kwargs[2].fs = <<kwargs[1].fs[2], kwargs[1].fs[1]>>
    /\ Len(kwargs[1].dependencies) = MaxDeps
    /\ kwargs[1].dependencies[1] # kwargs[1].dependencies[2]
    /\ kwargs[2].dependencies
          = <<kwargs[1].dependencies[2], kwargs[1].dependencies[1]>>
    /\ profiles[1].profile.dependencies = <<<<"a">>, <<"a", ",", "a">>>>
    /\ MountStr(profiles[1].profile.fs_mounts[1]) = NoneStr
    /\ profiles[1].profile = profiles[2].profile


\* The options of two call sites other than fs and dependencies are equal.
SameScalars ==
    /\ kwargs[1].net = kwargs[2].net
    /\ kwargs[1].cpu_ms = kwargs[2].cpu_ms
    /\ kwargs[1].mem_mb = kwargs[2].mem_mb

\* C21: the dependency sequence of a profile built from options is sorted
\* and has no repeated entry, and two dependency lists with the same entries,
\* repeated or not, give the same profile and the same fingerprint (the
\* other options equal).
C21_DepsDeduplicated ==
    (profiles[1].ok /\ profiles[2].ok)
        => /\ \A n \in 1..2 :
                LET deps == profiles[n].profile.dependencies
                IN \A i, j \in DOMAIN deps :
                      i < j => StrLess(deps[i], deps[j])
           /\ (/\ Range(DepList(kwargs[1])) = Range(DepList(kwargs[2]))
               /\ FsSpecs(kwargs[1]) = FsSpecs(kwargs[2])
               /\ SameScalars)
                 => /\ profiles[1].profile = profiles[2].profile
                    /\ profiles[1].profile_key = profiles[2].profile_key

\* C22: the mount spec "none" parses to the empty mount sequence: a profile
\* built with fs="none" has no mounts and equals the profile built with no
\* fs option (the other options equal).
C22_NoneIsEmpty ==
    (/\ profiles[1].ok /\ profiles[2].ok
     /\ kwargs[1].fs_kind = "str" /\ kwargs[1].fs = <<NoneStr>>
     /\ kwargs[2].fs_kind = "none"
     /\ DepList(kwargs[1]) = DepList(kwargs[2])
     /\ SameScalars)
        => /\ profiles[1].profile.fs_mounts = <<>>
           /\ profiles[1].profile = profiles[2].profile


\* The pools whose start() has its snapshot answer, for a profile with
\* dependencies.
Answered ==
    {i \in PoolIds : pool_prov[i] = "done" /\ KeyDeps(pool_key[i]) # <<>>}

\* The pools whose start() waits in provision_snapshot.
Provisioning ==
    {i \in PoolIds : pool_st[i] = "starting" /\ pool_prov[i] = "provisioning"}

\* A cached record is never replaced or dropped.
CacheKept ==
    \A k \in Keys : ~snapshots[k].absent => snapshots'[k] = snapshots[k]

\* C23: within one manager the snapshot of a profile_key is made at most
\* once.  No provisioning is under way for a key whose record is cached;
\* every pool.start() that got its answer holds the cached record of its
\* key, so two pools of one key have the same snapshot_path; a cached record
\* stays as it is; and for a profile without dependencies provision_snapshot
\* returns None and nothing is cached.
C23_ProvisionedOnce ==
    /\ [](/\ \A k \in Keys : provisioned[k] <= 1
          /\ \A i \in Provisioning : snapshots[pool_key[i]].absent
          /\ \A i \in Answered :
                /\ ~pool_snap[i].absent
                /\ pool_snap[i] = snapshots[pool_key[i]]
          /\ \A i, j \in Answered :
                pool_key[i] = pool_key[j]
                    => pool_snap[i].snapshot_path = pool_snap[j].snapshot_path
          /\ \A k \in Keys :
                KeyDeps(k) = <<>>
                    => /\ snapshots[k].absent
                       /\ ProvisionEntry(KeyDeps(k), k, snapshots)
                             = [kind |-> "return", value |-> NoSnapshot])
    /\ [][CacheKept]_vars

\* C23 witness: two pools were built for the key of a profile with
\* dependencies (the manager was shut down in between); the first made the
\* snapshot, the second got the cached record, and one snapshot was made.
C23_Witness ==
    /\ \E i, j \in Answered :
          /\ i # j
          /\ pool_key[i] = pool_key[j]
          /\ pool_snap[i] = pool_snap[j]
          /\ pool_st[i] = "stopped"
          /\ pool_st[j] = "started"
          /\ provisioned[pool_key[i]] = 1


\* C24: the guest splits a function reference at its leftmost colon: for a
\* reference with one or more colons the module path it imports is the text
\* before the first colon and the attribute path is everything after it.
C24_LeftmostColon ==
    (/\ ex_out # "none"
     /\ ex_req.command # "install"
     /\ HasColon(ex_req.function_ref))
        => /\ ex_import.attempted
           /\ ex_import.module_path
                 = SubSeq(ex_req.function_ref, 1,
                          FirstColon(ex_req.function_ref) - 1)
           /\ ex_import.func_name
                 = SubSeq(ex_req.function_ref,
                          FirstColon(ex_req.function_ref) + 1,
                          Len(ex_req.function_ref))


\* The recv calls that returned a message.
Delivered == {i \in DOMAIN received : received[i].ok}

\* C25: the recv calls return the messages passed to send, in order, each
\* complete and unmodified, however the byte stream is cut into reads: the
\* i-th recv that returns gives the i-th message sent; while recv collects a
\* payload it collects the next message sent, under its length; once every
\* byte written has arrived and been read, every message has been returned.
\* A recv fails only with ConnectionError, only at the end of a closed
\* stream, and no recv returns after that.
C25_FramingRoundTrip ==
    /\ \A i \in Delivered :
          /\ i <= Len(sent)
          /\ received[i].data = sent[i]
          /\ \A j \in 1..i : j \in Delivered
    /\ rpos = "data"
          => /\ Cardinality(Delivered) < Len(sent)
             /\ length = Len(sent[Cardinality(Delivered) + 1])
             /\ data = SubSeq(sent[Cardinality(Delivered) + 1], 1, Len(data))
    /\ (stream = <<>> /\ rpos = "idle" /\ dropped = 0)
          => Cardinality(Delivered) = Len(sent)
    /\ \A i \in DOMAIN received \ Delivered :
          /\ received[i].error = "ConnectionError"
          /\ eof
          /\ stream = <<>>

\* C25 witness: two messages were sent, the first with a payload of two
\* bytes; recv returned the first one and has read the second one's header
\* in part.
C25_Witness ==
    /\ Len(sent) = MaxMsgs
    /\ Len(sent[1]) = MaxPayload
    /\ received = <<Returned(sent[1])>>
    /\ rpos = "header"
    /\ Len(header) = 2
    /\ sent[2] # sent[1]


\* The largest length prefix the writing end of RawWireSpec can write.
LargestPrefix == UnpackHeader(<<127, 127, 127, 127>>)

\* C26: the payload size of a frame is bounded: recv does not take every
\* length prefix.  With the largest prefix read it does not go on to read
\* and buffer a payload of that length (it fails with a wire error).
C26_PayloadBounded ==
    (rpos = "data" \/ received # <<>>) => length < LargestPrefix


\* C27: for every function-call request the guest sends back one envelope:
\* success with the result and no error when the function returns, failure
\* with an error when the reference cannot be resolved, the target is not
\* callable, the function raises or the timeout fires; the error is there
\* iff success is false.
C27_OneEnvelope ==
    (ex_out # "none" /\ ex_req.command # "install")
        => /\ ex_sent
           /\ ex_resp.success <=> ex_resp.error = "none"
           /\ ex_resp.success
                 <=> /\ HasColon(ex_req.function_ref)
                     /\ ex_out \in {"return", "unserializable"}
           /\ ex_resp.success => ex_resp.result # "none"


\* text has part as a contiguous piece.
Contains(text, part) ==
    \E i \in 1..(Len(text) + 1) :
       /\ i + Len(part) - 1 <= Len(text)
       /\ SubSeq(text, i, i + Len(part) - 1) = part

\* The error of the response is a triple: type, message and traceback.
IsTriple(error) ==
    ~error.is_none /\ error.type.some /\ error.message.some
        /\ error.traceback.some

\* C28: for a response with success = false and an error triple the stub
\* raises one SandboxError whose original_type, message and
\* remote_traceback are the triple's type, message and traceback and whose
\* text has the traceback in it verbatim; for a response with success =
\* true the stub returns the result and raises nothing.
C28_ErrorReconstructed ==
    hr_outcome # NoOutcome
        => /\ hr_response.success
                 => /\ ~hr_outcome.raised
                    /\ hr_outcome.value = hr_response.result
           /\ (~hr_response.success /\ IsTriple(hr_response.error))
                 => /\ hr_outcome.raised
                    /\ hr_outcome.class = "SandboxError"
                    /\ hr_outcome.original_type = hr_response.error.type.str
                    /\ hr_outcome.message = hr_response.error.message.str
                    /\ hr_outcome.remote_traceback
                          = hr_response.error.traceback
                    /\ Contains(hr_outcome.text,
                                hr_response.error.traceback.str)

\* C28 witness: a failure response with a triple whose traceback has two
\* characters was handled, and the text of the error raised ends with the
\* traceback.
C28_Witness ==
    /\ ~hr_response.success
    /\ IsTriple(hr_response.error)
    /\ Len(hr_response.error.traceback.str) = MaxText
    /\ hr_response.error.type.str # <<>>
    /\ hr_outcome.raised
    /\ SubSeq(hr_outcome.text, Len(hr_outcome.text) - MaxText + 1,
              Len(hr_outcome.text)) = hr_response.error.traceback.str

\* C29: the synchronous entry point returns what the asynchronous call gave,
\* after the call ran once; a call made while an event loop is running is
\* dispatched and its result returned, or rejected with an error, and a
\* rejected call never acquires a VM or executes the function.
C29_RejectedNeverRuns ==
    \A t \in Tasks :
       /\ vm_uses[t] <= 1
       /\ sync_pc[t] = "returned"
             => sync_res[t] = "value" /\ vm_uses[t] = 1
       /\ sync_res[t] = "RuntimeError"
             => vm_uses[t] = 0 /\ loop_task[t] # "running"


\* The channel ids handed out so far.
Allocated == {v \in VMs : vmst[v] # "none"}

\* vm_id = f"{self.profile_key}-{cid}"
PoolVmId(cid) == <<"profile_key", "-", cid>>

\* A step hands out only channel ids above the counter, up to the new
\* counter, and never hands out a channel id again.
CidStep ==
    /\ cid_counter' >= cid_counter
    /\ \A v \in VMs :
          /\ (vmst[v] = "none" /\ vmst'[v] # "none")
                => (cid_counter < v /\ v <= cid_counter')
          /\ (vmst[v] # "none" /\ vmst'[v] # vmst[v])
                => vmst'[v] \notin {"none", "booting"}

\* C30: within a pool the channel ids are handed out in increasing order
\* from 101 on, and no two VM creations, at the same time or not, failed or
\* destroyed ones included, get the same channel id or the same vm_id.
C30_ChannelIdsUnique ==
    /\ [](/\ Allocated = (CidBase + 1)..cid_counter
          /\ CidBase + 1 = 101
          /\ \A t, u \in Tasks :
                (t # u /\ tvm[t] # NoVM /\ tvm[u] # NoVM)
                    => /\ tvm[t] # tvm[u]
                       /\ PoolVmId(tvm[t]) # PoolVmId(tvm[u]))
    /\ [][CidStep]_vars

\* C30 witness: three channel ids were handed out; the VM of one creation
\* failed, one VM was destroyed, and one creation is under way.
C30_Witness ==
    /\ cid_counter = CidBase + 3
    /\ \E v \in VMs : vmst[v] = "failed"
    /\ \E v \in VMs : vmst[v] = "stopped"
    /\ \E t \in Tasks : tvm[t] # NoVM /\ vmst[tvm[t]] = "booting"


\* C31: every VM in the available queue is live and registered in all; no
\* destroyed VM (client closed, process stopped, removed from all) is in the
\* queue or in the hands of a caller to which acquire returned it.
C31_AvailableAreLive ==
    /\ \A v \in Range(available) : v \in all_vms /\ vmst[v] = "ready"
    /\ \A t \in Tasks :
         pc[t] = "dequeued" => tvm[t] \in all_vms /\ vmst[tvm[t]] = "ready"


\* What a maintenance pass holds of the VMs it took out of the available
\* queue: the one it is destroying and the ones of vms_to_check it has not
\* come to.
PassHolds == ({mcur} \cup {mlist[i].vm : i \in DOMAIN mlist}) \ {NoVM}

\* C32: when a maintenance pass has ended, by itself or cancelled by stop,
\* every VM it took out of the available queue has been destroyed and
\* removed from all or is back in the queue: none is still registered in all
\* while neither the queue nor in_use has it.
C32_PassLeavesNoOrphan ==
    mpc \in {"sleep", "done"} =>
        \A v \in PassHolds :
            v \in all_vms => v \in Range(available) \cup Range(in_use)


\* The VMs of vms_to_check the pass has not come to.
ToCheck == {mlist[i].vm : i \in DOMAIN mlist}

\* The step in which a maintenance pass starts to destroy a VM: the VM comes
\* from the queue the pass drained (in this step, or earlier in the pass),
\* its idle age exceeds idle_timeout, all holds more than min_size VMs, and
\* the VM is not in in_use.
PassDestroysIdleOnly ==
    (mpc' = "destroy" /\ (mpc = "sleep" \/ mcur' # mcur)) =>
        /\ mcur' \in (IF mpc = "sleep" THEN Range(available) ELSE ToCheck)
        /\ idle[mcur']
        /\ Cardinality(all_vms') > min_size
        /\ mcur' \notin Range(in_use')

\* A running pass holds no VM that is in in_use.
PassTouchesNoInUse ==
    mpc = "destroy" => PassHolds \cap Range(in_use) = {}

\* C33: a maintenance pass destroys a VM only if the VM was in the available
\* queue, is idle for longer than idle_timeout, and |all| > min_size when it
\* is checked; no VM the pass holds is in in_use.
C33_PassDestroysIdleOnly ==
    [][PassDestroysIdleOnly]_vars /\ []PassTouchesNoInUse

\* C33 witness: a pass has ended in which one idle VM was destroyed and
\* another, as idle, was put back because all was down to min_size.
C33_Witness ==
    /\ mpc = "sleep" /\ ~shutdown /\ mcur = NoVM
    /\ \E v \in VMs : idle[v] /\ vmst[v] = "stopped" /\ v \notin all_vms
    /\ \E w \in Range(available) : idle[w]


\* C34: no step of a release (the destruction of the recycled VM, the
\* creation of its replacement) changes what the call gives its caller.
C34_ReleaseKeepsOutcome ==
    [][\A t \in Tasks :
          pc[t] \in {"rel_destroy", "rel_create"} => res'[t] = res[t]]_vars


\* The driver has started the VM's process and no stop_vm of it has
\* completed.
ProcessRuns(v) == vmst[v] \in {"ready", "closed", "unready"}

\* C35: no VM is left running that the pool does not track in all; a VM
\* whose ready probe failed after its start has been stopped.
C35_NoUntrackedVm ==
    \A v \in VMs : ProcessRuns(v) => v \in all_vms


\* The steps of an acquire whose inline creation fails: the timeout on the
\* empty queue that starts _create_vm, and the failure itself, which gives
\* the caller VMStartupError.  Neither changes the available queue, in_use
\* or all, and the pool is not shut down by them.
FailedAcquireFrame ==
    \A t \in Tasks :
        /\ (pc[t] = "creating" /\ pc'[t] = "idle") =>
               res'[t].kind = "startup"
        /\ ((pc[t] = "waiting" /\ pc'[t] = "creating")
              \/ (pc[t] = "creating" /\ pc'[t] = "idle")) =>
               /\ available' = available
               /\ in_use' = in_use
               /\ all_vms' = all_vms
               /\ shutdown' = shutdown
               /\ started'

\* C36: a failed inline creation in acquire gives the caller a VM-startup
\* error and leaves the available queue, in_use and all as they were; the
\* pool stays open.
C36_FailedAcquireFrame == [][FailedAcquireFrame]_vars

\* C36 witness: after a caller's acquire failed with VMStartupError in a
\* pool that was still open, a later request has acquired a VM and is being
\* served.
C36_Witness ==
    \E t, u \in Tasks :
        /\ ~shutdown
        /\ res[t].kind = "startup" /\ pc[t] = "idle"
        /\ pc[u] = "calling" /\ req[u] > req[t]
        /\ tvm[u] \in Range(in_use) /\ vmst[tvm[u]] = "ready"


\* C37: a caller that holds the pool lock is inside one of the blocks that
\* update the channel counter, all or in_use; no caller holds it while it is
\* suspended in a driver operation, the ready probe, the transport or the
\* wait on the available queue.
C37_LockOnlyForBookkeeping ==
    \A t \in Tasks :
        /\ lk_pc[t] \in Suspended => lk_owner # t
        /\ lk_owner = t => lk_pc[t] \in {"c_count", "c_reg", "a_reg",
                                         "r_pop", "d_pop"}

\* C37 witness: one caller is suspended in runner.stop_vm, having been
\* through the blocks of _acquire_vm and _release_vm, while another holds
\* the lock to enter its VM in in_use.
C37_Witness ==
    \E t, u \in Tasks :
        /\ lk_pc[t] = "d_stop"
        /\ lk_owner = u /\ lk_pc[u] = "a_reg"


\* The model has no channel id left for a further creation.
OutOfIds == cid_counter = CidBase + MaxVMs

\* The step in which a call leaves its wait for the response, and the step
\* that ends the destruction of the VM it recycles, leave the VM the call
\* acquired out of in_use.
ReleasedFromInUse ==
    \A t \in Tasks :
        ((pc[t] = "calling" /\ pc'[t] # "calling")
           \/ (pc[t] = "rel_destroy" /\ pc'[t] # "rel_destroy"))
            => tvm[t] \notin Range(in_use')

\* An execute call is over with a response or with one of its errors.
Completed(t) ==
    /\ pc[t] = "idle"
    /\ res[t].kind \in {"response", "exhausted", "startup", "timeout",
                        "error", "cancelled"}

Destroyed(v) ==
    vmst[v] = "stopped" /\ v \notin all_vms /\ v \notin Range(in_use)

\* The step in which a _destroy_vm of v resumes from runner.stop_vm and
\* pops: of a release, of a maintenance pass, or of stop.
DestroyEnds(v) ==
    \/ \E t \in Tasks : /\ pc[t] = "rel_destroy" /\ tvm[t] = v
                        /\ pc'[t] # "rel_destroy"
    \/ mpc = "destroy" /\ mcur = v /\ mpc' # "done" /\ mcur' # mcur
    \/ /\ spc \in {"drain_destroy", "inuse_destroy"} /\ scur = v
       /\ stopvars' # stopvars

\* One destruction leaves v out of all and in_use and stopped in the same
\* step; a destruction of a VM that is destroyed already changes neither
\* all, in_use nor the set of VMs the driver runs, and the release that did
\* it goes on as after any destruction, its call's outcome unchanged.
DestroyIdempotent ==
    \A v \in VMs : DestroyEnds(v) =>
        /\ v \notin all_vms' /\ v \notin Range(in_use') /\ vmst'[v] = "stopped"
        /\ Destroyed(v) =>
             /\ all_vms' = all_vms
             /\ in_use' = in_use
             /\ {w \in VMs : ProcessRuns(w)}' = {w \in VMs : ProcessRuns(w)}
             /\ \A t \in Tasks :
                  (pc[t] = "rel_destroy" /\ tvm[t] = v) =>
                      /\ res'[t] = res[t]
                      /\ pc'[t] \in {"idle", "rel_create"}

ClosedBeforeResponse ==
    /\ in_pc \in {"header", "data"}
    /\ eof
    /\ Len(stream) < (IF in_pc = "header"
                      THEN HEADER_SIZE - Len(in_header)
                      ELSE in_length - Len(in_data))

\* C40: when the guest closes the connection before a complete install
\* response has arrived, provision_snapshot ends with an error, the
\* provisioning VM stopped and nothing cached for the key.
C40_ProvisionEndsOnClose ==
    ClosedBeforeResponse
        ~> (in_pc = "raised" /\ in_vm = "stopped" /\ ~Cached(snapshots, "k1"))

====
